---------------------------- MODULE Spec2Model ----------------------------
(***************************************************************************)
(* HCP web crawler: the per-record LangGraph pipeline                      *)
(* (services/agent/nodes.py, graph.py), the browser pool of                *)
(* services/scraper_service.py (one asyncio.Semaphore shared by every      *)
(* job task, each call wrapped in a tenacity retry) and the language-model *)
(* calls of services/llm_service.py, seen through their results.           *)
(*                                                                         *)
(* One asyncio task per job runs the graph; tasks interleave at awaits.    *)
(* Strings, page text and reasoning are abstracted to what the code tests: *)
(* a contact field is TRUE when the string is non-empty, a URL is a small  *)
(* integer, an exception message is the string "exc".                      *)
(***************************************************************************)
EXTENDS Integers, Sequences, FiniteSets, TLC

VARIABLES
    settings,     \* config.Settings: confidence_threshold, max_concurrent_browsers
    world,        \* what the external collaborators can answer (search, scrape, LLM)
    tasks,        \* the job tasks started by asyncio.create_task(_process_job(...))
    pc,           \* pc[t]: the graph node task t is at ("END" = graph finished)
    state,        \* state[t]: the HCPAgentState dict flowing through the graph
    loc,          \* loc[t]: locals of scrape_pages (loop position, pages list)
    call,         \* call[t]: the ScraperService call task t has in flight
    sem_value,    \* ScraperService._semaphore._value (free slots)
    sem_waiters,  \* ScraperService._semaphore._waiters (FIFO)
    hist,         \* hist[t]: history of task t's record (observation only)
    parse,        \* one call of ScraperService._parse_google_results
    job,          \* job[t]: position and locals of task t in _process_job
    db,           \* db[t]: the committed rows of task t's job (job row, record rows)
    sess,         \* sess[t]: the rows as task t's session sees them (with its open writes)
    dbfaults,     \* how many more persistence calls can raise
    verify,       \* one pass of llm_extract and llm_verify over given model responses
    sheet,        \* one call of excel_service.parse_excel
    urlcall,      \* one call of rank_url and is_blocked_url on a URL
    jsoncall      \* one call of LLMService._parse_json_response

\* what the graph nodes leave alone
outside == <<parse, job, db, sess, dbfaults, verify, sheet,
          urlcall, jsoncall>>

vars == <<settings, world, tasks, pc, state, loc, call, sem_value, sem_waiters, hist,
          parse, job, db, sess, dbfaults, verify, sheet,
          urlcall, jsoncall>>

---------------------------------------------------------------------------
(* Bounds of the model *)

MaxHits == 2      \* longest hit list a search returns
NumJobs == 2      \* job tasks alive at once in the pool specification
MaxPool == 2      \* largest max_concurrent_browsers tried
MaxPage == 3      \* most result containers on a result page
MaxRecords == 2   \* most records in an uploaded batch
MaxFaults == 2    \* most persistence calls that raise during one job

(* Program constants *)

RetryCap == 3         \* should_retry: retry_count < 3
StopAfterAttempt == 3 \* tenacity stop_after_attempt(3)
ScrapeTop == 5        \* scrape_pages: hits[:5]

Exc == "exc"

---------------------------------------------------------------------------
(* Data *)

Urls == 1..MaxHits

\* ExtractedContact: a field is TRUE when its string is non-empty
Contact(p, e, a, u) == [phone |-> p, email |-> e, full_address |-> a, source_url |-> u]

\* Python's None where a contact is expected: no ExtractedContact has source_url 0
None == Contact(FALSE, FALSE, FALSE, 0)

\* what an extraction can bring back: nothing, a phone only, an address only
ContactShapes == { <<FALSE, FALSE, FALSE>>, <<TRUE, FALSE, FALSE>>,
                   <<FALSE, FALSE, TRUE>> }

HitLists == { [k \in 1..n |-> k] : n \in 0..MaxHits }

\* failures: how many attempts in a row a search can fail
RichWorld == [ hits     |-> HitLists,
               failures |-> StopAfterAttempt,
               pages    |-> {"text", "empty", "fail"},
               shapes   |-> ContactShapes,
               scores   |-> {0, 40, 85},
               tally    |-> FALSE ]

PlainWorld == [ hits     |-> { <<1>> },
                failures |-> 1,
                pages    |-> {"text"},
                shapes   |-> { <<TRUE, FALSE, FALSE>> },
                scores   |-> {40, 85},
                tally    |-> FALSE ]

\* more hits than scrape_pages takes, pages that fail, and no tier that ends
\* the record early; the scrape calls of the record are tallied
LongHits == [k \in 1..(ScrapeTop + MaxHits) |-> k]

ScrapeWorld == [ hits     |-> { <<>>, <<1>>, LongHits },
                 failures |-> 1,
                 pages    |-> {"text", "empty", "fail"},
                 shapes   |-> { <<TRUE, FALSE, FALSE>> },
                 scores   |-> {40},
                 tally    |-> TRUE ]

\* a search may fail on every attempt of a call, so that the call raises
SlotWorld == [ hits     |-> { <<1>> },
               failures |-> StopAfterAttempt,
               pages    |-> {"text"},
               shapes   |-> { <<TRUE, FALSE, FALSE>> },
               scores   |-> {85},
               tally    |-> FALSE ]

Thresholds == {0, 70}

\* HCPInput: "" is a missing field (the address lines play no part in a query)
HCPInput(pid, first, middle, last, city, st) ==
    [ project_id |-> pid, first_name |-> first, middle_name |-> middle,
      last_name |-> last, city |-> city, state_code |-> st ]

\* the identity of scenario A
JohnSmith == HCPInput("P001", "John", "", "Smith", "Boston", "MA")

HCPInputs == { HCPInput("P001", f, m, l, c, st) :
                 f \in {"", "John"}, m \in {"", "M"}, l \in {"", "Smith"},
                 c \in {"", "Boston"}, st \in {"", "MA"} }

\* search_service.PRIORITY_SITES: the non-empty site groups, most trusted first
PRIORITY_SITES == << <<"doximity.com", "npiprofile.com">>, <<".gov", ".edu">> >>

RoleKeywords == "doctor healthcare provider"
ContactQualifier == "contact information"

\* " ".join(parts): a joined string is kept as the sequence of its parts
NonEmpty(x) == x # ""

\* variant: the role keywords are only appended when a name is present
build_base_query_named_only(hcp) ==
    SelectSeq(<<hcp.first_name, hcp.middle_name, hcp.last_name,
                hcp.city, hcp.state_code>>, NonEmpty)
    \o (IF hcp.last_name # "" THEN <<RoleKeywords>> ELSE <<>>)

\* build_base_query: the present fields in order, then the role keywords
build_base_query(hcp) ==
    SelectSeq(<<hcp.first_name, hcp.middle_name, hcp.last_name,
                hcp.city, hcp.state_code>>, NonEmpty)
    \o <<RoleKeywords>>

\* a query f"{base} ({site_filter})" or f"{base} contact information":
\* base parts, the sites OR-ed as site: filters, the trailing qualifier
Query(base, sites, suffix) == [base |-> base, sites |-> sites, suffix |-> suffix]

\* build_search_queries: one query per priority-site group, then the general one
build_search_queries(hcp) ==
    LET base == build_base_query(hcp)
    IN [k \in 1..Len(PRIORITY_SITES) |-> Query(base, PRIORITY_SITES[k], <<>>)]
       \o << Query(base, <<>>, <<ContactQualifier>>) >>

\* the state dict as `_process_job` creates it; absent keys read as their .get defaults
InitialState(hcp) ==
                [ hcp_input             |-> hcp,
                  search_queries        |-> <<>>,
                  current_query_idx     |-> 0,
                  search_results        |-> <<>>,
                  scraped_pages         |-> <<>>,
                  extracted_contacts    |-> <<>>,
                  best_contact          |-> None,
                  confidence_score      |-> 0,
                  verification_reasoning|-> "",
                  source_urls           |-> <<>>,
                  match_status          |-> "NOT_FOUND",
                  retry_count           |-> 0,
                  error                 |-> "" ]

NoCall == [kind |-> "none", phase |-> "idle", attempt |-> 0, slot |-> FALSE, acq |-> 0]

\* the locals of scrape_pages: the hit it is at, the pages kept, and every
\* PageContent scrape_page returned in this tier
NoLoc == [i |-> 1, pages |-> <<>>, fetched |-> <<>>]

NoHist == [ searches    |-> 0,       \* entries into the google_search node
            scrapes     |-> 0,       \* scrape_page calls that returned, where tallied
            everMet     |-> FALSE,   \* some candidate scored >= threshold
            tiersScored |-> 0,       \* llm_verify runs that scored a candidate
            searchFailed|-> FALSE,   \* this tier's search call raised
            verified    |-> FALSE,   \* llm_verify has run for this record
            last        |-> [kind |-> "none", attempts |-> 0, outcome |-> "none"] ]

---------------------------------------------------------------------------
(* Pure parts of the code *)

\* variant: acquire() never finds the semaphore locked
SemNeverLocked(value, waiters) == FALSE

\* asyncio.Semaphore.locked()
SemLocked(value, waiters) == value = 0 \/ waiters # <<>>

\* variant: the stop test is off by one (a fourth attempt)
StopRetryingLate(attempt) == attempt > StopAfterAttempt

\* tenacity: after a failed attempt, stop (re-raise) or wait and try again
StopRetrying(attempt) == attempt >= StopAfterAttempt

\* variant: the retry wraps the `async with`, the slot is given back while waiting
RetryWaitReleasing(c) == [c EXCEPT !.phase = "backoff", !.slot = FALSE]

\* tenacity wait between attempts: the coroutine sleeps inside `async with`
RetryWait(c) == [c EXCEPT !.phase = "backoff"]

\* variant: the status test without `and best_contact`
MatchStatusNoContactTest(best_score, best_contact, threshold) ==
    IF best_score >= threshold
    THEN IF ~best_contact.phone /\ ~best_contact.email THEN "PARTIAL" ELSE "FOUND"
    ELSE "NOT_FOUND"

\* variant: the status test without the downgrade to PARTIAL
MatchStatusNoPartial(best_score, best_contact, threshold) ==
    IF best_score >= threshold /\ best_contact # None THEN "FOUND" ELSE "NOT_FOUND"

\* llm_verify, lines 150-157
MatchStatus(best_score, best_contact, threshold) ==
    IF best_score >= threshold /\ best_contact # None
    THEN IF ~best_contact.phone /\ ~best_contact.email THEN "PARTIAL" ELSE "FOUND"
    ELSE "NOT_FOUND"

\* variant: a later candidate with an equal score replaces the best
IsBetterOrEqual(score, best_score) == score >= best_score

\* llm_verify, line 142: score > best_score
IsBetter(score, best_score) == score > best_score

\* variant: a score equal to the threshold does not count
MeetsThresholdStrictly(score, threshold) == score > threshold

\* llm_verify, line 147: score >= settings.confidence_threshold
MeetsThreshold(score, threshold) == score >= threshold

\* what verify_identity returns for one candidate: (score, reasoning)
Verdict(score, reasoning) == [score |-> score, reasoning |-> reasoning]

\* the locals of llm_verify before its loop, lines 130-133
FreshVerify == [best_score |-> 0, best_contact |-> None,
                best_reasoning |-> "", source_urls |-> <<>>]

\* llm_verify, lines 138-148: the loop over the candidates
RECURSIVE VerifyLoop(_, _, _, _, _)
VerifyLoop(contacts, verdicts, threshold, k, acc) ==
    IF k > Len(contacts) THEN acc
    ELSE LET score == verdicts[k].score
             c     == contacts[k]
             a1    == IF IsBetter(score, acc.best_score)
                      THEN [acc EXCEPT !.best_score = score, !.best_contact = c,
                                       !.best_reasoning = verdicts[k].reasoning]
                      ELSE acc
             a2    == IF MeetsThreshold(score, threshold)
                      THEN [a1 EXCEPT !.source_urls = Append(@, c.source_url)]
                      ELSE a1
         IN VerifyLoop(contacts, verdicts, threshold, k + 1, a2)

\* llm_verify as a state update, given what verify_identity returns per candidate
llm_verify_verdicts(s, verdicts, threshold, start) ==
    LET r  == VerifyLoop(s.extracted_contacts, verdicts, threshold, 1, start)
        ms == MatchStatus(r.best_score, r.best_contact, threshold)
    IN [s EXCEPT !.best_contact     = IF ms = "NOT_FOUND" THEN None ELSE r.best_contact,
                 !.confidence_score = r.best_score,
                 !.verification_reasoning = r.best_reasoning,
                 !.source_urls      = r.source_urls,
                 !.match_status     = ms]

\* the reasoning text of a model answer, and the note of a failed call
ModelReasoning == "llm"
VerificationFailed == "Verification failed"

Scored(scores) == [k \in DOMAIN scores |-> Verdict(scores[k], ModelReasoning)]

\* variant: the loop starts from what the state holds from the tier before
llm_verify_result_carrying(s, scores, threshold) ==
    llm_verify_verdicts(s, Scored(scores), threshold,
                        [best_score |-> s.confidence_score, best_contact |-> s.best_contact,
                         best_reasoning |-> s.verification_reasoning,
                         source_urls |-> s.source_urls])

\* llm_verify as a state update, every call answered with a score
llm_verify_result(s, scores, threshold) ==
    llm_verify_verdicts(s, Scored(scores), threshold, FreshVerify)

\* variant: the tier test is off by one (retries once past the last query)
should_retry_one_more(s) ==
    IF s.match_status = "FOUND" THEN "done"
    ELSE IF s.current_query_idx < Len(s.search_queries) /\ s.retry_count < RetryCap
         THEN "retry"
         ELSE "done"

\* variant: the tier test is off by one the other way (the last query is never tried)
should_retry_one_less(s) ==
    IF s.match_status = "FOUND" THEN "done"
    ELSE IF s.current_query_idx + 2 < Len(s.search_queries) /\ s.retry_count < RetryCap
         THEN "retry"
         ELSE "done"

\* variant: a PARTIAL result ends the record like a FOUND one
should_retry_partial_done(s) ==
    IF s.match_status \in {"FOUND", "PARTIAL"} THEN "done"
    ELSE IF s.current_query_idx + 1 < Len(s.search_queries) /\ s.retry_count < RetryCap
         THEN "retry"
         ELSE "done"

\* should_retry: the conditional edge after llm_verify
should_retry(s) ==
    IF s.match_status = "FOUND" THEN "done"
    ELSE IF s.current_query_idx + 1 < Len(s.search_queries) /\ s.retry_count < RetryCap
         THEN "retry"
         ELSE "done"

\* variant: prepare_retry forgets to empty the search results
prepare_retry_keeps_hits(s) ==
    [s EXCEPT !.current_query_idx  = @ + 1,
              !.retry_count        = @ + 1,
              !.scraped_pages      = <<>>,
              !.extracted_contacts = <<>>]

\* variant: the retry is counted but the next query is not selected
prepare_retry_same_query(s) ==
    [s EXCEPT !.retry_count        = @ + 1,
              !.search_results     = <<>>,
              !.scraped_pages      = <<>>,
              !.extracted_contacts = <<>>]

\* prepare_retry: the state it returns
prepare_retry_result(s) ==
    [s EXCEPT !.current_query_idx  = @ + 1,
              !.retry_count        = @ + 1,
              !.search_results     = <<>>,
              !.scraped_pages      = <<>>,
              !.extracted_contacts = <<>>]

\* variant: the node does not catch the exception, the graph run is aborted
google_search_reraise(s) == [next |-> "raised", st |-> s]

\* google_search node, the except branch: what the node does with a raised search
google_search_except(s) ==
    [next |-> "scrape_pages", st |-> [s EXCEPT !.search_results = <<>>, !.error = Exc]]

\* variant: every contact is kept
IsUsefulAlways(c) == TRUE

\* llm_extract, line 111: at least one useful field
IsUseful(c) == c.phone \/ c.email \/ c.full_address

\* llm_extract: keep the contacts with at least one useful field
RECURSIVE KeepUseful(_, _, _)
KeepUseful(pages, shapes, k) ==
    IF k > Len(pages) THEN <<>>
    ELSE LET sh == shapes[k]
             c  == Contact(sh[1], sh[2], sh[3], pages[k])
         IN (IF IsUseful(c) THEN <<c>> ELSE <<>>)
            \o KeepUseful(pages, shapes, k + 1)

\* variant: every hit is scraped
TopHitsAll(hits) == hits

\* hits[:5]
TopHits(hits) == SubSeq(hits, 1, IF Len(hits) < ScrapeTop THEN Len(hits) ELSE ScrapeTop)

---------------------------------------------------------------------------
(* The semaphore: `async with self._semaphore` *)

\* acquire(): take a free slot at once, or queue
Acquire(t, kind) ==
    IF ~SemLocked(sem_value, sem_waiters)
    THEN /\ sem_value' = sem_value - 1
         /\ sem_waiters' = sem_waiters
         /\ call' = [call EXCEPT ![t] = [kind |-> kind, phase |-> "running",
                                         attempt |-> 1, slot |-> TRUE, acq |-> 1]]
    ELSE /\ sem_value' = sem_value
         /\ sem_waiters' = Append(sem_waiters, t)
         /\ call' = [call EXCEPT ![t] = [kind |-> kind, phase |-> "waiting",
                                         attempt |-> 0, slot |-> FALSE, acq |-> 0]]

\* variant: release() wakes the first waiter and counts the slot as free too
ReleaseAndWake(c) ==
    /\ sem_value' = sem_value + 1
    /\ IF sem_waiters # <<>>
       THEN LET h == Head(sem_waiters)
            IN /\ sem_waiters' = Tail(sem_waiters)
               /\ call' = [c EXCEPT ![h] = [@ EXCEPT !.phase = "running", !.attempt = 1,
                                                     !.slot = TRUE, !.acq = @ + 1]]
       ELSE /\ sem_waiters' = sem_waiters
            /\ call' = c

\* release() on leaving the `async with` block: the slot goes to the first
\* waiter, which then starts its first attempt; c is call with t's call ended
Release(c) ==
    IF sem_waiters # <<>>
    THEN LET h == Head(sem_waiters)
         IN /\ sem_waiters' = Tail(sem_waiters)
            /\ sem_value' = sem_value
            /\ call' = [c EXCEPT ![h] = [@ EXCEPT !.phase = "running", !.attempt = 1,
                                                  !.slot = TRUE, !.acq = @ + 1]]
    ELSE /\ sem_waiters' = sem_waiters
         /\ sem_value' = sem_value + 1
         /\ call' = c

\* variant: the sleep between tiers is taken with the slot already held
AwaitTierDelayInBlock == [NoCall EXCEPT !.kind = "search", !.phase = "delay", !.slot = TRUE]

\* the node sleeps between tiers before it calls scraper.google_search
AwaitTierDelay == [NoCall EXCEPT !.kind = "search", !.phase = "delay"]

\* variant: the slot is given back only when the block is left by a return
LeaveBlockByReturnOnly(c, raised) ==
    IF raised
    THEN call' = c /\ UNCHANGED <<sem_value, sem_waiters>>
    ELSE Release(c)

\* `async with self._semaphore`: the slot is released however the block is
\* left, by a return or by an exception passing through it
LeaveBlock(c, raised) == Release(c)

Ended(t, kind, attempts, outcome) ==
    [hist[t] EXCEPT !.last = [kind |-> kind, attempts |-> attempts, outcome |-> outcome]]

---------------------------------------------------------------------------
(* The result parser: ScraperService._parse_google_results *)

\* a URL as the parser's tests see it: its text, and which of the substrings the
\* code looks for occur in it (text in lower case, as result links are)
Url(name, has) == [name |-> name, has |-> has]

\* the href of a container without an http link
NoLink == Url("", {})

UrlPool == { Url("https://www.doximity.com/pub/john-smith", {"doximity.com"}),
             Url("https://www.mass.gov/john-smith", {".gov"}),
             Url("https://www.bostonhealth.org/smith", {".org", "health"}),
             Url("https://www.example.com/smith", {}),
             Url("https://www.facebook.com/dr.smith", {"facebook.com"}),
             Url("https://www.google.com/search?q=smith", {"google.com", "google.co"}) }

SOCIAL_MEDIA_BLOCKLIST ==
    { "facebook.com", "twitter.com", "x.com", "instagram.com", "linkedin.com",
      "tiktok.com", "reddit.com", "pinterest.com", "snapchat.com", "threads.net",
      "tumblr.com", "youtube.com" }

\* is_blocked_url: some blocklisted domain occurs in the URL
is_blocked_url(url) == url.has \cap SOCIAL_MEDIA_BLOCKLIST # {}

\* "google.com" in url or "google.co" in url
IsSearchEngine(url) == url.has \cap {"google.com", "google.co"} # {}

\* variant: the keyword test comes before the .org test
rank_url_keywords_first(url) ==
    IF url.has \cap {"doximity.com", "npiprofile.com"} # {} THEN 0
    ELSE IF ".gov" \in url.has THEN 1
    ELSE IF ".edu" \in url.has THEN 2
    ELSE IF url.has \cap {"hospital", "health", "medical", "clinic"} # {} THEN 4
    ELSE IF ".org" \in url.has THEN 3
    ELSE 5

\* rank_url: the first test that matches decides
rank_url(url) ==
    IF url.has \cap {"doximity.com", "npiprofile.com"} # {} THEN 0
    ELSE IF ".gov" \in url.has THEN 1
    ELSE IF ".edu" \in url.has THEN 2
    ELSE IF ".org" \in url.has THEN 3
    ELSE IF url.has \cap {"hospital", "health", "medical", "clinic"} # {} THEN 4
    ELSE 5

SearchHit(url) == [url |-> url, rank |-> rank_url(url)]

\* the hosts and the paths of the URLs handed to rank_url and is_blocked_url:
\* a host is kept as its labels, and each part lists the substrings the code
\* looks for that occur in it (a path begins with "/", so none of them lies
\* across the two parts)
Part(text, has) == [text |-> text, has |-> has]

UrlHosts == { Part(<<"www", "doximity", "com">>, {"doximity.com"}),
              Part(<<"npiprofile", "com">>, {"npiprofile.com"}),
              Part(<<"health", "gov">>, {".gov", "health"}),
              Part(<<"www", "harvard", "edu">>, {".edu"}),
              Part(<<"www", "hospital", "org">>, {".org", "hospital"}),
              Part(<<"www", "massgeneralclinic", "com">>, {"clinic"}),
              Part(<<"www", "randomsite", "com">>, {}),
              Part(<<"www", "facebook", "com">>, {"facebook.com"}),
              Part(<<"twitter", "com">>, {"twitter.com"}),
              Part(<<"x", "com">>, {"x.com"}),
              Part(<<"www", "medex", "com">>, {"x.com"}) }

UrlPaths == { Part("/", {}),
              Part("/pub/john-smith", {}),
              Part("/medical-staff/smith", {"medical"}),
              Part("/partners.org/smith", {".org"}),
              Part("/forms/report.gov.html", {".gov"}),
              Part("/links/doximity.com", {"doximity.com"}),
              Part("/share?u=facebook.com/drsmith", {"facebook.com"}) }

\* "https://" + host + path
HttpsUrl(host, path) == Url(<<host.text, path.text>>, host.has \cup path.has)

\* one URL, and what the two functions returned for it
UrlCall(host, path) ==
    [ url |-> HttpsUrl(host, path), host |-> host.text,
      ranked |-> FALSE, rank |-> 0, asked |-> FALSE, blocked |-> FALSE ]

NoUrlCall == UrlCall(Part(<<>>, {}), Part("", {}))

\* seen_urls: a URL is added exactly when its hit is appended
SeenUrls(hits) == { hits[k].url.name : k \in 1..Len(hits) }

\* the skips of one loop round: no link, search-engine link, blocked, duplicate
Skipped(url, hits) ==
    \/ url = NoLink
    \/ IsSearchEngine(url)
    \/ is_blocked_url(url)
    \/ url.name \in SeenUrls(hits)

\* one selector strategy: the loop over the candidates from position k on, which
\* breaks as soon as max_results hits are collected
RECURSIVE CollectHits(_, _, _, _)
CollectHits(cands, k, hits, max_results) ==
    IF k > Len(cands) \/ Len(hits) >= max_results THEN hits
    ELSE IF Skipped(cands[k], hits)
         THEN CollectHits(cands, k + 1, hits, max_results)
         ELSE CollectHits(cands, k + 1, Append(hits, SearchHit(cands[k])), max_results)

\* hits.sort(key=rank) is stable: h goes behind every hit whose rank is not larger
RECURSIVE InsertByRank(_, _)
InsertByRank(sorted, h) ==
    IF sorted = <<>> THEN <<h>>
    ELSE IF Head(sorted).rank <= h.rank
         THEN <<Head(sorted)>> \o InsertByRank(Tail(sorted), h)
         ELSE <<h>> \o sorted

RECURSIVE SortByRank(_)
SortByRank(hits) ==
    IF hits = <<>> THEN <<>>
    ELSE InsertByRank(SortByRank(SubSeq(hits, 1, Len(hits) - 1)), hits[Len(hits)])

\* a result page: the title link of each result container in document order, and
\* the h3 links that stand outside every container
Page(containers, loose) == [containers |-> containers, loose |-> loose]

HasLink(url) == url # NoLink

\* soup.select("a[href^='http']") with an h3: every title link of the page
TitleLinks(page) == SelectSeq(page.containers, HasLink) \o page.loose

\* variant: the hits are returned in encounter order
parse_google_results_unsorted(page, max_results) ==
    LET first == CollectHits(page.containers, 1, <<>>, max_results)
    IN IF first # <<>> THEN first
       ELSE CollectHits(TitleLinks(page), 1, <<>>, max_results)

\* _parse_google_results: strategy 1 over the containers, strategy 2 over all
\* title links when strategy 1 found nothing, then the sort
parse_google_results(page, max_results) ==
    LET first == CollectHits(page.containers, 1, <<>>, max_results)
        hits  == IF first # <<>> THEN first
                 ELSE CollectHits(TitleLinks(page), 1, <<>>, max_results)
    IN SortByRank(hits)

SeqsUpTo(S, n) == UNION { [1..k -> S] : k \in 0..n }

Pages == { Page(c, l) : c \in SeqsUpTo(UrlPool \cup {NoLink}, MaxPage),
                        l \in SeqsUpTo(UrlPool, 1) }

\* max_results_per_hcp (at least 1)
Caps == 1..MaxHits

NoParse == [page |-> Page(<<>>, <<>>), max_results |-> 1, hits |-> <<>>, done |-> FALSE]

---------------------------------------------------------------------------
(* The language-model calls: services/llm_service.py *)

\* what the chat completion does for one call: it raises, or it returns text
\* that is no JSON object, or a JSON object; `fields` is what the object holds
Answer(kind, fields) == [kind |-> kind, fields |-> fields]

\* _parse_json_response: text that is no JSON object parses to the empty dict
parse_json_response(answer, empty_dict) ==
    IF answer.kind = "json" THEN answer.fields ELSE empty_dict

\* an extraction object as result.get reads it: which of phone, email and
\* full_address are present and non-empty
NoFields == <<FALSE, FALSE, FALSE>>

ExtractionAnswers ==
    { Answer("raise", NoFields), Answer("text", NoFields) }
        \cup { Answer("json", sh) : sh \in ContactShapes }

\* extract_contact: the fields of the ExtractedContact it returns
extract_contact(answer) ==
    IF answer.kind = "raise" THEN NoFields
    ELSE parse_json_response(answer, NoFields)

\* a verification object as result.get reads it: "confidence" (absent, or the
\* number the model chose) and "reasoning" (absent, or a text)
NoVerdict == [has |-> FALSE, confidence |-> 0, reasoning |-> ""]

Confidences == {-5, 0, 40, 85, 150}

VerificationAnswers ==
    { Answer("raise", NoVerdict), Answer("text", NoVerdict), Answer("json", NoVerdict) }
        \cup { Answer("json", [has |-> TRUE, confidence |-> c, reasoning |-> ModelReasoning]) :
                 c \in Confidences }

\* variant: a call that raises counts as a full match
verify_identity_trusting(answer) ==
    IF answer.kind = "raise" THEN Verdict(100, VerificationFailed)
    ELSE LET result == parse_json_response(answer, NoVerdict)
         IN Verdict(IF result.has THEN result.confidence ELSE 0, result.reasoning)

\* verify_identity: (confidence, reasoning)
verify_identity(answer) ==
    IF answer.kind = "raise" THEN Verdict(0, VerificationFailed)
    ELSE LET result == parse_json_response(answer, NoVerdict)
         IN Verdict(IF result.has THEN result.confidence ELSE 0, result.reasoning)

\* one pass of llm_extract then llm_verify over the pages 1..n of a tier;
\* page k has URL k, and the model's answers are listed by page
LlmPass(n, ex, ve, th) ==
    [ pages |-> [k \in 1..n |-> k], extractions |-> ex, verifications |-> ve,
      threshold |-> th, stage |-> "llm_extract", s |-> InitialState(JohnSmith),
      asked |-> <<>> ]    \* the contacts verify_identity was called with

NoVerify == [ LlmPass(0, <<>>, <<>>, 70) EXCEPT !.stage = "off" ]

---------------------------------------------------------------------------
(* The ingestion of an upload: services/excel_service.py *)

\* a cell as iter_rows(values_only=True) gives it: None, a string or a number;
\* `text` is what str() makes of the value
Cell(kind, text) == [kind |-> kind, text |-> text]
Blank == Cell("none", "None")

\* bool(value): None, the empty string and the number 0 are false
Truthy(c) == \/ c.kind = "text" /\ c.text # ""
             \/ c.kind = "number" /\ c.text # "0"

\* str.strip() on the texts of the model
Strip(str) == CASE str = " "           -> ""
                [] str = " P002 "      -> "P002"
                [] str = " Project Id" -> "Project Id"
                [] OTHER               -> str

\* str.upper().replace(" ", "_") on the texts of the model
UpperUnderscored(str) == CASE str = "Project Id" -> "PROJECT_ID"
                           [] str = "Id"         -> "ID"
                           [] OTHER              -> str

\* _normalise_header
normalise_header(header) == UpperUnderscored(Strip(header))

_EXPECTED_COLUMNS == {"PROJECT_ID", "FIRST_NAME"}

\* line 56: str(h).strip() if h else ""
raw_headers(row) == [i \in DOMAIN row |-> IF Truthy(row[i]) THEN Strip(row[i].text) ELSE ""]

normalised(row) == [i \in DOMAIN row |-> normalise_header(raw_headers(row)[i])]

\* col_map.get(name): the last column with that header, 0 for no column
col_map(row, name) ==
    LET at == { i \in DOMAIN row : normalised(row)[i] = name }
    IN IF name \notin _EXPECTED_COLUMNS \/ at = {} THEN 0
       ELSE CHOOSE i \in at : \A j \in at : j <= i

\* line 79: str(row[project_id_idx]).strip() if row[project_id_idx] else ""
project_id_of(c) == IF Truthy(c) THEN Strip(c.text) ELSE ""

\* _cell(col_name) for a row as wide as the header
cell_of(header, row, name) ==
    LET idx == col_map(header, name)
    IN IF idx = 0 \/ row[idx].kind = "none" THEN "" ELSE Strip(row[idx].text)

\* lines 73-97: the records of the data rows, in row order
RECURSIVE ParseRows(_, _, _)
ParseRows(header, rows, k) ==
    IF k > Len(rows) THEN <<>>
    ELSE LET row        == rows[k]
             project_id == project_id_of(row[col_map(header, "PROJECT_ID")])
         IN (IF project_id = "" THEN <<>>
             ELSE << HCPInput(project_id, cell_of(header, row, "FIRST_NAME"),
                              "", "", "", "") >>)
            \o ParseRows(header, rows, k + 1)

\* parse_excel on the rows of the active sheet: the records, or a ValueError
parse_excel(rows) ==
    IF Len(rows) < 2
    THEN [raised |-> TRUE, records |-> <<>>]
    ELSE IF \A i \in DOMAIN rows[1] : normalised(rows[1])[i] # "PROJECT_ID"
         THEN [raised |-> TRUE, records |-> <<>>]
         ELSE [raised |-> FALSE, records |-> ParseRows(rows[1], Tail(rows), 1)]

\* the sheets of the model: two columns, a header row or no row at all, and up
\* to MaxRecords data rows
HeaderCells == { Cell("text", "PROJECT_ID"), Cell("text", " Project Id"),
                 Cell("text", "Id"), Cell("text", "FIRST_NAME"), Blank }

IdCells == { Blank, Cell("text", ""), Cell("text", " "), Cell("text", "P001"),
             Cell("text", " P002 "), Cell("number", "0"), Cell("number", "7") }

NameCells == { Blank, Cell("text", "John") }

HeaderRows == { <<a, b>> : a \in HeaderCells, b \in {Cell("text", "FIRST_NAME"),
                                                      Cell("text", "PROJECT_ID")} }

DataRows == { <<a, b>> : a \in IdCells, b \in NameCells }

Sheets == { <<>> } \cup
          { <<h>> \o d : h \in HeaderRows,
                         d \in UNION { [1..n -> DataRows] : n \in 0..MaxRecords } }

Upload(rows) == [ stage |-> "uploaded", rows |-> rows, records |-> <<>> ]

NoSheet == [ Upload(<<>>) EXCEPT !.stage = "off" ]

\* the content of a chat completion as _parse_json_response reads it:
\*   given - "none" for None, "empty" for "", "text" otherwise
\*   whole - what json.loads(content) makes of it: "invalid" (JSONDecodeError),
\*           "object" (a dict) or "other" (a list, number, string or null)
\*   fence - "```" in content
\*   open  - content.find("{"), close - content.rfind("}"), -1 for none
\*   span  - what json.loads(content[open:close + 1]) makes of that span
Content(given, whole, fence, open, close, span) ==
    [ given |-> given, whole |-> whole, fence |-> fence,
      open |-> open, close |-> close, span |-> span ]

NoContent == Content("none", "invalid", FALSE, -1, -1, "invalid")

EmptyContent == Content("empty", "invalid", FALSE, -1, -1, "invalid")

\* a text is a JSON object only if it has a brace span, and then the span is it
Contents ==
    { NoContent, EmptyContent } \cup
    { c \in { Content("text", w, f, o, cl, sp) :
                w \in {"invalid", "object", "other"}, f \in BOOLEAN,
                o \in {-1, 0, 8}, cl \in {-1, 3, 20}, sp \in {"invalid", "object"} } :
        /\ c.span = "object" => (c.open >= 0 /\ c.close > c.open)
        /\ c.whole = "object" => c.span = "object" }

Returned(value) == [raised |-> FALSE, value |-> value]
JSONDecodeError == [raised |-> TRUE, value |-> "{}"]

\* json.loads on a text that was found to be `kind`
json_loads(kind) == IF kind = "invalid" THEN JSONDecodeError ELSE Returned(kind)

\* _parse_json_response, lines 178-189; the except clause catches the first
\* json.loads only
_parse_json_response(content) ==
    IF content.given # "text" THEN Returned("{}")
    ELSE IF ~json_loads(content.whole).raised THEN json_loads(content.whole)
    ELSE IF content.fence
         THEN LET start == content.open
                  end   == content.close + 1
              IN IF start >= 0 /\ end > start
                 THEN json_loads(content.span)
                 ELSE Returned("{}")
         ELSE Returned("{}")

JsonCall(content) == [ content |-> content, done |-> FALSE, result |-> Returned("{}") ]

NoJsonCall == [ JsonCall(NoContent) EXCEPT !.done = TRUE ]

NoHelpers == urlcall = NoUrlCall /\ jsoncall = NoJsonCall

NoCalls == parse = NoParse /\ verify = NoVerify /\ sheet = NoSheet /\ NoHelpers

---------------------------------------------------------------------------
(* The stored rows and the job task: models/database.py, routes._process_job *)

\* ProcessingJob as upload_excel creates it
JobRow(n) == [ status |-> "PENDING", total_records |-> n, processed_records |-> 0,
               found_count |-> 0, not_found_count |-> 0, error_count |-> 0 ]

\* HCPRecord as upload_excel creates it: column defaults, match_status PROCESSING
RecordRow(hcp) == [ project_id |-> hcp.project_id, match_status |-> "PROCESSING",
                    phone |-> FALSE, email |-> FALSE, full_address |-> FALSE,
                    confidence_score |-> 0, verification_reasoning |-> "" ]

\* the rows upload_excel commits before it creates the task
Uploaded(records) ==
    [ job     |-> JobRow(Len(records)),
      records |-> [k \in 1..Len(records) |-> RecordRow(records[k])] ]

\* the WHERE clause of both record updates (job_id is the job's own)
Matches(row, hcp) == row.project_id = hcp.project_id

\* .values(**update_values): the contact columns only when there is a best contact
ResultRow(row, result) ==
    LET base == [row EXCEPT !.match_status = result.match_status,
                            !.confidence_score = result.confidence_score,
                            !.verification_reasoning = result.verification_reasoning]
    IN IF result.best_contact # None
       THEN [base EXCEPT !.phone = result.best_contact.phone,
                         !.email = result.best_contact.email,
                         !.full_address = result.best_contact.full_address]
       ELSE base

\* variant: the error update leaves the reasoning column alone
ErrorRowNoReasoning(row) == [row EXCEPT !.match_status = "ERROR"]

\* .values(match_status="ERROR", verification_reasoning=str(exc))
ErrorRow(row) == [row EXCEPT !.match_status = "ERROR", !.verification_reasoning = Exc]

\* variant: the update matches no row
update_record_result_no_match(rows, hcp, result) == rows

\* update(HCPRecord).where(job_id, project_id).values(**update_values)
update_record_result(rows, hcp, result) ==
    [k \in DOMAIN rows |->
        IF Matches(rows[k], hcp) THEN ResultRow(rows[k], result) ELSE rows[k]]

\* update(HCPRecord).where(job_id, project_id).values(match_status="ERROR", ...)
update_record_error(rows, hcp) ==
    [k \in DOMAIN rows |-> IF Matches(rows[k], hcp) THEN ErrorRow(rows[k]) ELSE rows[k]]

\* variant: a PARTIAL result counts as not found
CountResultPartialNotFound(j, match_status) ==
    IF match_status = "FOUND"
    THEN [j EXCEPT !.found = @ + 1]
    ELSE [j EXCEPT !.not_found = @ + 1]

\* found / not_found after a stored result: PARTIAL counts as found
CountResult(j, match_status) ==
    IF match_status \in {"FOUND", "PARTIAL"}
    THEN [j EXCEPT !.found = @ + 1]
    ELSE [j EXCEPT !.not_found = @ + 1]

\* variant: the progress update writes the 0-based index plus two
ProgressRowAhead(row, j) ==
    [row EXCEPT !.processed_records = j.idx + 1, !.found_count = j.found,
                !.not_found_count = j.not_found, !.error_count = j.errors]

\* .values(processed_records=idx + 1, found_count=..., ...): j.idx counts from 1
ProgressRow(row, j) ==
    [row EXCEPT !.processed_records = j.idx, !.found_count = j.found,
                !.not_found_count = j.not_found, !.error_count = j.errors]

\* variant: the loop ends after the first record
LoopDoneEarly(j) == j.idx >= 1

\* the for loop over the records is exhausted
LoopDone(j) == j.idx = Len(j.records)

\* the task's locals; outcomes lists what each handled record ended with
JobTask(records, at) ==
    [ pc |-> at, records |-> records, idx |-> 0,
      found |-> 0, not_found |-> 0, errors |-> 0, outcomes |-> <<>> ]

\* a task inside graph.ainvoke for the only record of its job
InAinvoke(hcp) == [JobTask(<<hcp>>, "running") EXCEPT !.idx = 1]

InAinvokeRows(hcp) == [Uploaded(<<hcp>>) EXCEPT !.job.status = "PROCESSING"]

ProjectIds == {"P001", "P002"}

\* the batches an upload can hold: 1..MaxRecords rows, project ids free to repeat
Batches ==
    { b \in UNION { [1..n -> { [JohnSmith EXCEPT !.project_id = p] : p \in ProjectIds }]
                    : n \in 1..MaxRecords } : b[1].project_id = "P001" }

\* what the collaborators answer while a job runs
JobWorld == [ hits     |-> { <<1>> },
              failures |-> 1,
              pages    |-> {"text"},
              shapes   |-> { <<TRUE, FALSE, FALSE>>, <<FALSE, FALSE, TRUE>> },
              scores   |-> {40, 85},
              tally    |-> FALSE ]

---------------------------------------------------------------------------
(* Initial states *)

InitWith(ts, w, th, sizes, hcps) ==
    /\ tasks = ts
    /\ world = w
    /\ settings \in [ confidence_threshold    : th,
                      max_concurrent_browsers : sizes ]
    /\ pc = [t \in ts |-> "build_queries"]
    /\ state \in [ts -> {InitialState(h) : h \in hcps}]
    /\ loc = [t \in ts |-> NoLoc]
    /\ call = [t \in ts |-> NoCall]
    /\ sem_value = settings.max_concurrent_browsers
    /\ sem_waiters = <<>>
    /\ hist = [t \in ts |-> NoHist]
    /\ job = [t \in ts |-> InAinvoke(state[t].hcp_input)]
    /\ db = [t \in ts |-> InAinvokeRows(state[t].hcp_input)]
    /\ sess = db
    /\ dbfaults = 0

\* one record, every shape of answer; a single task never waits for a slot
Init == InitWith({1}, RichWorld, Thresholds, {1}, {JohnSmith}) /\ NoCalls

\* several jobs on the shared pool, plain answers
InitPool == InitWith(1..NumJobs, PlainWorld, {70}, 1..MaxPool, {JohnSmith}) /\ NoCalls

\* several jobs on a pool of one slot, with search calls that can use up their
\* attempts
InitSlots == InitWith(1..NumJobs, SlotWorld, {70}, {1}, {JohnSmith}) /\ NoCalls

\* one record of every identity
InitQuery == InitWith({1}, PlainWorld, {70}, {1}, HCPInputs) /\ NoCalls

\* a freshly uploaded batch: the task is created, no graph run has begun
InitJob ==
    /\ tasks = {1}
    /\ world = JobWorld
    /\ settings = [confidence_threshold |-> 70, max_concurrent_browsers |-> 1]
    /\ pc = [t \in tasks |-> "idle"]
    /\ state = [t \in tasks |-> InitialState(JohnSmith)]
    /\ loc = [t \in tasks |-> NoLoc]
    /\ call = [t \in tasks |-> NoCall]
    /\ sem_value = settings.max_concurrent_browsers
    /\ sem_waiters = <<>>
    /\ hist = [t \in tasks |-> NoHist]
    /\ NoCalls
    /\ job \in [tasks -> { JobTask(b, "start") : b \in Batches }]
    /\ db = [t \in tasks |-> Uploaded(job[t].records)]
    /\ sess = db
    /\ dbfaults = MaxFaults

\* one result page and one cap; no job runs
InitParse ==
    /\ InitWith({}, PlainWorld, {70}, {1}, {JohnSmith})
    /\ parse \in { [NoParse EXCEPT !.page = p, !.max_results = c] :
                     p \in Pages, c \in Caps }
    /\ verify = NoVerify
    /\ sheet = NoSheet
    /\ NoHelpers

\* one record whose searches return more hits than a tier scrapes
InitScrape == InitWith({1}, ScrapeWorld, {70}, {1}, {JohnSmith}) /\ NoCalls

\* one tier's pages and every answer the model can give for them
InitLlm ==
    /\ InitWith({}, PlainWorld, {70}, {1}, {JohnSmith})
    /\ parse = NoParse
    /\ sheet = NoSheet
    /\ NoHelpers
    /\ \E n \in 1..MaxHits, th \in Thresholds :
         \E ex \in [1..n -> ExtractionAnswers], ve \in [1..n -> VerificationAnswers] :
            verify = LlmPass(n, ex, ve, th)

\* one URL of a search result
InitUrl ==
    /\ InitWith({}, PlainWorld, {70}, {1}, {JohnSmith})
    /\ parse = NoParse
    /\ verify = NoVerify
    /\ sheet = NoSheet
    /\ jsoncall = NoJsonCall
    /\ urlcall \in { UrlCall(h, p) : h \in UrlHosts, p \in UrlPaths }

\* one completion content
InitJson ==
    /\ InitWith({}, PlainWorld, {70}, {1}, {JohnSmith})
    /\ parse = NoParse
    /\ verify = NoVerify
    /\ sheet = NoSheet
    /\ urlcall = NoUrlCall
    /\ jsoncall \in { JsonCall(c) : c \in Contents }

\* one uploaded sheet
InitSheet ==
    /\ InitWith({}, PlainWorld, {70}, {1}, {JohnSmith})
    /\ parse = NoParse
    /\ verify = NoVerify
    /\ sheet \in { Upload(rows) : rows \in Sheets }
    /\ NoHelpers

---------------------------------------------------------------------------
(* Graph nodes *)

build_queries(t) ==
    /\ pc[t] = "build_queries"
    /\ state' = [state EXCEPT ![t] =
                   [InitialState(state[t].hcp_input) EXCEPT
                      !.search_queries = build_search_queries(state[t].hcp_input)]]
    /\ pc' = [pc EXCEPT ![t] = "google_search"]
    /\ UNCHANGED <<outside, settings, world, tasks, loc, call, sem_value, sem_waiters, hist>>

\* google_search node up to its first suspension
google_search(t) ==
    /\ pc[t] = "google_search"
    /\ call[t].phase = "idle"
    /\ hist' = [hist EXCEPT ![t].searches = @ + 1]
    /\ IF state[t].current_query_idx >= Len(state[t].search_queries)
       THEN /\ state' = [state EXCEPT ![t].search_results = <<>>]
            /\ pc' = [pc EXCEPT ![t] = "scrape_pages"]
            /\ UNCHANGED <<call, sem_value, sem_waiters>>
       ELSE /\ IF state[t].current_query_idx > 0
               THEN /\ call' = [call EXCEPT ![t] = AwaitTierDelay]
                    /\ UNCHANGED <<sem_value, sem_waiters>>
               ELSE Acquire(t, "search")
            /\ UNCHANGED <<state, pc>>
    /\ UNCHANGED <<outside, settings, world, tasks, loc>>

\* the inter-tier sleep is over: scraper.google_search is called
tier_delay_done(t) ==
    /\ pc[t] = "google_search"
    /\ call[t].phase = "delay"
    /\ Acquire(t, "search")
    /\ UNCHANGED <<outside, settings, world, tasks, pc, state, loc, hist>>

\* one attempt of _do_google_search, holding the slot
do_google_search(t) ==
    /\ pc[t] = "google_search"
    /\ call[t].phase = "running"
    /\ call[t].kind = "search"
    /\ \/ \E hits \in world.hits :
            \* the attempt returns: the slot is released, the node stores the hits
            /\ LeaveBlock([call EXCEPT ![t] = NoCall], FALSE)
            /\ state' = [state EXCEPT ![t].search_results = hits]
            /\ pc' = [pc EXCEPT ![t] = "scrape_pages"]
            /\ hist' = [hist EXCEPT ![t] = Ended(t, "search", call[t].attempt, "returned")]
       \/ \* the attempt raises
          /\ call[t].attempt <= world.failures
          /\ IF StopRetrying(call[t].attempt)
             THEN LET r == google_search_except(state[t])
                  IN /\ LeaveBlock([call EXCEPT ![t] = NoCall], TRUE)
                     /\ state' = [state EXCEPT ![t] = r.st]
                     /\ pc' = [pc EXCEPT ![t] = r.next]
                     /\ hist' = [hist EXCEPT ![t] =
                                   [Ended(t, "search", call[t].attempt, "raised")
                                      EXCEPT !.searchFailed = TRUE]]
             ELSE /\ call' = [call EXCEPT ![t] = RetryWait(call[t])]
                  /\ UNCHANGED <<state, pc, hist, sem_value, sem_waiters>>
    /\ UNCHANGED <<outside, settings, world, tasks, loc>>

\* the backoff sleep is over: tenacity runs the next attempt
backoff_done(t) ==
    /\ call[t].phase = "backoff"
    /\ call' = [call EXCEPT ![t] = [@ EXCEPT !.phase = "running", !.attempt = @ + 1]]
    /\ UNCHANGED <<outside, settings, world, tasks, pc, state, loc, sem_value, sem_waiters, hist>>

\* scrape_pages: the loop head; calls scraper.scrape_page or returns
scrape_pages(t) ==
    /\ pc[t] = "scrape_pages"
    /\ call[t].phase = "idle"
    /\ IF loc[t].i > Len(TopHits(state[t].search_results))
       THEN /\ state' = [state EXCEPT ![t].scraped_pages = loc[t].pages]
            /\ pc' = [pc EXCEPT ![t] = "llm_extract"]
            /\ loc' = [loc EXCEPT ![t] = NoLoc]
            /\ UNCHANGED <<call, sem_value, sem_waiters>>
       ELSE /\ Acquire(t, "scrape")
            /\ UNCHANGED <<state, pc, loc>>
    /\ UNCHANGED <<outside, settings, world, tasks, hist>>

\* one attempt of _do_scrape_page: it catches every exception itself and
\* returns PageContent(success=False), so tenacity never sees a failure
do_scrape_page(t) ==
    /\ pc[t] = "scrape_pages"
    /\ call[t].phase = "running"
    /\ call[t].kind = "scrape"
    /\ \E out \in world.pages :
         LET url  == TopHits(state[t].search_results)[loc[t].i]
             page == [url |-> url, text |-> (out = "text"), success |-> (out # "fail")]
         IN /\ LeaveBlock([call EXCEPT ![t] = NoCall], FALSE)
            /\ loc' = [loc EXCEPT ![t] =
                         [i       |-> loc[t].i + 1,
                          pages   |-> IF page.success /\ page.text
                                      THEN Append(loc[t].pages, page.url)
                                      ELSE loc[t].pages,
                          fetched |-> Append(loc[t].fetched, page)]]
            /\ hist' = [hist EXCEPT ![t] =
                          [Ended(t, "scrape", call[t].attempt,
                                 IF page.success THEN "returned" ELSE "failed_page")
                             EXCEPT !.scrapes = IF world.tally THEN @ + 1 ELSE @]]
    /\ UNCHANGED <<outside, settings, world, tasks, pc, state>>

llm_extract(t) ==
    /\ pc[t] = "llm_extract"
    /\ \E shapes \in [1..Len(state[t].scraped_pages) -> world.shapes] :
         state' = [state EXCEPT ![t].extracted_contacts =
                                   KeepUseful(state[t].scraped_pages, shapes, 1)]
    /\ pc' = [pc EXCEPT ![t] = "llm_verify"]
    /\ UNCHANGED <<outside, settings, world, tasks, loc, call, sem_value, sem_waiters, hist>>

\* llm_verify and the conditional edge should_retry that follows it
llm_verify(t) ==
    /\ pc[t] = "llm_verify"
    /\ \E scores \in [1..Len(state[t].extracted_contacts) -> world.scores] :
         LET s == llm_verify_result(state[t], scores, settings.confidence_threshold)
         IN /\ state' = [state EXCEPT ![t] = s]
            /\ pc' = [pc EXCEPT ![t] = IF should_retry(s) = "retry"
                                       THEN "prepare_retry" ELSE "END"]
            /\ hist' = [hist EXCEPT
                          ![t].verified = TRUE,
                          ![t].everMet = @ \/ (\E k \in DOMAIN scores :
                                                 scores[k] >= settings.confidence_threshold),
                          ![t].tiersScored = IF scores # <<>> THEN @ + 1 ELSE @]
    /\ UNCHANGED <<outside, settings, world, tasks, loc, call, sem_value, sem_waiters>>

prepare_retry(t) ==
    /\ pc[t] = "prepare_retry"
    /\ state' = [state EXCEPT ![t] = prepare_retry_result(state[t])]
    /\ pc' = [pc EXCEPT ![t] = "google_search"]
    /\ hist' = [hist EXCEPT ![t].searchFailed = FALSE]
    /\ UNCHANGED <<outside, settings, world, tasks, loc, call, sem_value, sem_waiters>>

Next ==
    \E t \in tasks :
        \/ build_queries(t)
        \/ google_search(t)
        \/ tier_delay_done(t)
        \/ do_google_search(t)
        \/ backoff_done(t)
        \/ scrape_pages(t)
        \/ do_scrape_page(t)
        \/ llm_extract(t)
        \/ llm_verify(t)
        \/ prepare_retry(t)

---------------------------------------------------------------------------
(* The job task: routes._process_job *)

\* execute of one statement through the session, then db.commit() when `commits`:
\* both can raise; a commit that raised leaves the open writes or rolls them back
Persist(t, written, commits, jok, jfail) ==
    \/ /\ sess' = [sess EXCEPT ![t] = written]
       /\ db' = IF commits THEN [db EXCEPT ![t] = written] ELSE db
       /\ job' = [job EXCEPT ![t] = jok]
       /\ dbfaults' = dbfaults
    \/ /\ dbfaults > 0
       /\ dbfaults' = dbfaults - 1
       /\ db' = db
       /\ job' = [job EXCEPT ![t] = jfail]
       /\ \/ sess' = sess
          \/ commits /\ sess' = [sess EXCEPT ![t] = written]
          \/ commits /\ sess' = [sess EXCEPT ![t] = db[t]]

At(j, at) == [j EXCEPT !.pc = at]

GraphVars == <<pc, state, loc, call, sem_value, sem_waiters, hist>>

\* graph.ainvoke({"hcp_input": hcp_input}) begins
Ainvoke(t, hcp) ==
    /\ pc' = [pc EXCEPT ![t] = "build_queries"]
    /\ state' = [state EXCEPT ![t] = InitialState(hcp)]
    /\ loc' = [loc EXCEPT ![t] = NoLoc]
    /\ hist' = [hist EXCEPT ![t] = NoHist]
    /\ UNCHANGED <<call, sem_value, sem_waiters>>

\* the graph run is over and its result consumed
GraphGone(t) ==
    /\ pc' = [pc EXCEPT ![t] = "idle"]
    /\ state' = [state EXCEPT ![t] = InitialState(JohnSmith)]
    /\ loc' = [loc EXCEPT ![t] = NoLoc]
    /\ hist' = [hist EXCEPT ![t] = NoHist]
    /\ UNCHANGED <<call, sem_value, sem_waiters>>

\* status = "PROCESSING", commit
job_start(t) ==
    /\ job[t].pc = "start"
    /\ Persist(t, [sess[t] EXCEPT !.job.status = "PROCESSING"], TRUE,
               At(job[t], "loop"), At(job[t], "failing"))
    /\ UNCHANGED <<GraphVars, settings, world, tasks, parse, verify, sheet,
          urlcall, jsoncall>>

\* the head of the for loop: the next record, delayed unless it is the first
job_loop(t) ==
    /\ job[t].pc = "loop"
    /\ IF LoopDone(job[t])
       THEN /\ job' = [job EXCEPT ![t] = At(@, "completing")]
            /\ UNCHANGED GraphVars
       ELSE IF job[t].idx > 0
       THEN /\ job' = [job EXCEPT ![t] = [@ EXCEPT !.pc = "delay", !.idx = @ + 1]]
            /\ UNCHANGED GraphVars
       ELSE /\ job' = [job EXCEPT ![t] = [@ EXCEPT !.pc = "running", !.idx = @ + 1]]
            /\ Ainvoke(t, job[t].records[job[t].idx + 1])
    /\ UNCHANGED <<settings, world, tasks, parse, verify, sheet, urlcall, jsoncall,
                   db, sess, dbfaults>>

\* the inter-record sleep is over
job_delay_done(t) ==
    /\ job[t].pc = "delay"
    /\ job' = [job EXCEPT ![t] = At(@, "running")]
    /\ Ainvoke(t, job[t].records[job[t].idx])
    /\ UNCHANGED <<settings, world, tasks, parse, verify, sheet, urlcall, jsoncall,
                   db, sess, dbfaults>>

\* a node raises what nothing in the graph catches (get_llm_service() in llm_extract)
graph_raises(t) ==
    /\ job[t].pc = "running"
    /\ pc[t] = "llm_extract"
    /\ pc' = [pc EXCEPT ![t] = "raised"]
    /\ UNCHANGED <<outside, settings, world, tasks, state, loc, call, sem_value,
                   sem_waiters, hist>>

\* ainvoke returned: the record update and the local counters
job_store_result(t) ==
    /\ job[t].pc = "running"
    /\ pc[t] = "END"
    /\ LET hcp    == job[t].records[job[t].idx]
           result == state[t]
       IN Persist(t, [sess[t] EXCEPT !.records = update_record_result(@, hcp, result)],
                  FALSE,
                  [CountResult(At(job[t], "progress"), result.match_status)
                     EXCEPT !.outcomes = Append(@, result.match_status)],
                  At(job[t], "record_error"))
    /\ GraphGone(t)
    /\ UNCHANGED <<settings, world, tasks, parse, verify, sheet,
          urlcall, jsoncall>>

\* except Exception inside the loop: errors += 1 and the ERROR update
job_record_error(t) ==
    /\ \/ job[t].pc = "running" /\ pc[t] = "raised"
       \/ job[t].pc = "record_error"
    /\ LET hcp == job[t].records[job[t].idx]
           j   == [job[t] EXCEPT !.errors = @ + 1, !.outcomes = Append(@, "ERROR")]
       IN Persist(t, [sess[t] EXCEPT !.records = update_record_error(@, hcp)],
                  FALSE, At(j, "progress"), At(j, "failing"))
    /\ IF pc[t] = "raised" THEN GraphGone(t) ELSE UNCHANGED GraphVars
    /\ UNCHANGED <<settings, world, tasks, parse, verify, sheet,
          urlcall, jsoncall>>

\* the progress update of the job row, commit
job_progress(t) ==
    /\ job[t].pc = "progress"
    /\ Persist(t, [sess[t] EXCEPT !.job = ProgressRow(@, job[t])], TRUE,
               At(job[t], "loop"), At(job[t], "failing"))
    /\ UNCHANGED <<GraphVars, settings, world, tasks, parse, verify, sheet,
          urlcall, jsoncall>>

\* status = "COMPLETED", commit
job_complete(t) ==
    /\ job[t].pc = "completing"
    /\ Persist(t, [sess[t] EXCEPT !.job.status = "COMPLETED"], TRUE,
               At(job[t], "done"), At(job[t], "failing"))
    /\ UNCHANGED <<GraphVars, settings, world, tasks, parse, verify, sheet,
          urlcall, jsoncall>>

\* the outer except: status = "FAILED", commit; what it raises ends the task
job_failed(t) ==
    /\ job[t].pc = "failing"
    /\ Persist(t, [sess[t] EXCEPT !.job.status = "FAILED"], TRUE,
               At(job[t], "done"), At(job[t], "crashed"))
    /\ UNCHANGED <<GraphVars, settings, world, tasks, parse, verify, sheet,
          urlcall, jsoncall>>

JobNext ==
    \/ Next
    \/ \E t \in tasks :
        \/ job_start(t)
        \/ job_loop(t)
        \/ job_delay_done(t)
        \/ graph_raises(t)
        \/ job_store_result(t)
        \/ job_record_error(t)
        \/ job_progress(t)
        \/ job_complete(t)
        \/ job_failed(t)

\* the call of _parse_google_results on the page source
do_parse_google_results ==
    /\ ~parse.done
    /\ parse' = [parse EXCEPT !.hits = parse_google_results(parse.page, parse.max_results),
                              !.done = TRUE]
    /\ UNCHANGED <<settings, world, tasks, pc, state, loc, call, sem_value,
                   sem_waiters, hist, job, db, sess, dbfaults, verify, sheet,
          urlcall, jsoncall>>

ParseNext == do_parse_google_results

\* what a call on a URL leaves alone
NotUrlCall == <<settings, world, tasks, pc, state, loc, call, sem_value, sem_waiters,
                hist, parse, job, db, sess, dbfaults, verify, sheet, jsoncall>>

\* rank_url(url)
do_rank_url ==
    /\ ~urlcall.ranked
    /\ urlcall' = [urlcall EXCEPT !.ranked = TRUE, !.rank = rank_url(urlcall.url)]
    /\ UNCHANGED NotUrlCall

\* is_blocked_url(url)
do_is_blocked_url ==
    /\ ~urlcall.asked
    /\ urlcall' = [urlcall EXCEPT !.asked = TRUE, !.blocked = is_blocked_url(urlcall.url)]
    /\ UNCHANGED NotUrlCall

UrlNext == do_rank_url \/ do_is_blocked_url

\* self._parse_json_response(response.choices[0].message.content)
do_parse_json_response ==
    /\ ~jsoncall.done
    /\ jsoncall' = [jsoncall EXCEPT
                      !.done = TRUE,
                      !.result = _parse_json_response(jsoncall.content)]
    /\ UNCHANGED <<settings, world, tasks, pc, state, loc, call, sem_value, sem_waiters,
                   hist, parse, job, db, sess, dbfaults, verify, sheet, urlcall>>

JsonNext == do_parse_json_response

\* what a pass over the model's answers leaves alone
NotVerify == <<settings, world, tasks, pc, state, loc, call, sem_value, sem_waiters,
               hist, parse, job, db, sess, dbfaults, sheet, urlcall, jsoncall>>

\* the contacts extract_contact returns for the pages, by page
Extracted(v) == [k \in DOMAIN v.pages |-> extract_contact(v.extractions[k])]

\* what verify_identity returns for the candidates, by candidate
Verdicts(v, contacts) ==
    [k \in DOMAIN contacts |-> verify_identity(v.verifications[contacts[k].source_url])]

\* llm_extract over the answers of the pass
do_llm_extract ==
    /\ verify.stage = "llm_extract"
    /\ verify' = [verify EXCEPT
                    !.stage = "llm_verify",
                    !.s = [@ EXCEPT !.scraped_pages = verify.pages,
                                    !.extracted_contacts =
                                        KeepUseful(verify.pages, Extracted(verify), 1)]]
    /\ UNCHANGED NotVerify

\* llm_verify over the answers of the pass
do_llm_verify ==
    /\ verify.stage = "llm_verify"
    /\ verify' = [verify EXCEPT
                    !.stage = "END",
                    !.asked = verify.s.extracted_contacts,
                    !.s = llm_verify_verdicts(@, Verdicts(verify, @.extracted_contacts),
                                              verify.threshold, FreshVerify)]
    /\ UNCHANGED NotVerify

LlmNext == do_llm_extract \/ do_llm_verify

\* upload_excel calls parse_excel and answers 400 when it raises ValueError
do_parse_excel ==
    /\ sheet.stage = "uploaded"
    /\ LET r == parse_excel(sheet.rows)
       IN sheet' = [sheet EXCEPT !.stage = IF r.raised THEN "rejected" ELSE "parsed",
                                 !.records = r.records]
    /\ UNCHANGED <<settings, world, tasks, pc, state, loc, call, sem_value, sem_waiters,
                   hist, parse, job, db, sess, dbfaults, verify, urlcall, jsoncall>>

SheetNext == do_parse_excel

Spec == Init /\ [][Next]_vars

SpecParse == InitParse /\ [][ParseNext]_vars

SpecScrape == InitScrape /\ [][Next]_vars

SpecUrl == InitUrl /\ [][UrlNext]_vars

SpecJson == InitJson /\ [][JsonNext]_vars

SpecLlm == InitLlm /\ [][LlmNext]_vars

SpecSheet == InitSheet /\ [][SheetNext]_vars

SpecJob == InitJob /\ [][JobNext]_vars

SpecPool == InitPool /\ [][Next]_vars

SpecQuery == InitQuery /\ [][Next]_vars

\* every call of a collaborator returns or raises in the end
FairSpec == Init /\ [][Next]_vars /\ WF_vars(Next)

\* the event loop runs every coroutine that is ready, and every sleep ends
FairSlots == InitSlots /\ [][Next]_vars /\ WF_vars(Next)


---------------------------------------------------------------------------
(* Properties *)

TierCount == Len(PRIORITY_SITES) + 1

\* the states in which the fields written by llm_verify are those of the
\* verification that has just run
JustVerified(t) == hist[t].verified /\ pc[t] \in {"prepare_retry", "END"}

Holders == {t \in tasks : call[t].slot}

\* C1: the retry loop terminates: every record reaches the end of the graph,
\* enters the search node at most 3 times (the tier count) and its retry
\* counter never exceeds the cap of 3.
C1_RetryLoopTerminates ==
    /\ [](\A t \in tasks : /\ hist[t].searches <= 3
                           /\ state[t].retry_count <= 3)
    /\ <>(\A t \in tasks : pc[t] = "END")

C1_Witness ==
    \E t \in tasks : pc[t] = "END" /\ hist[t].searches = 3 /\ state[t].retry_count = 2

\* C2 as stated: after llm_verify, best score >= threshold gives FOUND, or
\* PARTIAL when the best contact has neither phone nor email; a best score
\* below the threshold gives NOT_FOUND and no best contact.
C2_AsStated ==
    \A t \in tasks :
        JustVerified(t) =>
            LET s == state[t]
            IN IF s.confidence_score >= settings.confidence_threshold
               THEN s.match_status = IF ~s.best_contact.phone /\ ~s.best_contact.email
                                     THEN "PARTIAL" ELSE "FOUND"
               ELSE s.match_status = "NOT_FOUND" /\ s.best_contact = None

\* C2 amended: the FOUND/PARTIAL rule applies when the best score is >= the
\* threshold and some candidate scored above 0 (so that a best contact was
\* selected); in every other case the status is NOT_FOUND with no best contact.
C2_StatusRule ==
    \A t \in tasks :
        JustVerified(t) =>
            LET s == state[t]
            IN IF s.confidence_score >= settings.confidence_threshold
                  /\ s.confidence_score > 0
               THEN /\ s.best_contact # None
                    /\ s.match_status = IF ~s.best_contact.phone /\ ~s.best_contact.email
                                        THEN "PARTIAL" ELSE "FOUND"
               ELSE s.match_status = "NOT_FOUND" /\ s.best_contact = None

\* Scenario D: an address-only candidate at or above the threshold
C2_Witness ==
    \E t \in tasks : /\ JustVerified(t)
                     /\ state[t].match_status = "PARTIAL"
                     /\ state[t].best_contact.full_address
                     /\ state[t].confidence_score >= settings.confidence_threshold

\* C3: from verification onward, for every threshold, status FOUND or PARTIAL
\* implies a best contact and a confidence score >= the threshold.
C3_FoundImpliesContact ==
    \A t \in tasks :
        state[t].match_status \in {"FOUND", "PARTIAL"} =>
            /\ state[t].best_contact # None
            /\ state[t].confidence_score >= settings.confidence_threshold

C3_Witness ==
    \E t \in tasks : /\ hist[t].verified
                     /\ state[t].match_status = "FOUND"
                     /\ settings.confidence_threshold = 0

\* C4: leaving llm_verify, FOUND goes to END; otherwise, with a tier left and
\* the retry counter below 3, the machine goes through prepare_retry, which
\* adds one to the query index and to the retry counter, empties the search
\* results, scraped pages and extracted contacts and re-enters the search;
\* otherwise END.  PARTIAL and NOT_FOUND are treated alike.
C4_VerifyTransition ==
    [][\A t \in tasks :
         /\ (pc[t] = "llm_verify" /\ pc'[t] # "llm_verify") =>
               LET s == state'[t]
               IN pc'[t] = IF s.match_status = "FOUND" THEN "END"
                           ELSE IF s.current_query_idx + 1 < TierCount /\ s.retry_count < 3
                                THEN "prepare_retry"
                                ELSE "END"
         /\ (pc[t] = "prepare_retry" /\ pc'[t] # "prepare_retry") =>
               /\ pc'[t] = "google_search"
               /\ state'[t].current_query_idx = state[t].current_query_idx + 1
               /\ state'[t].retry_count = state[t].retry_count + 1
               /\ state'[t].search_results = <<>>
               /\ state'[t].scraped_pages = <<>>
               /\ state'[t].extracted_contacts = <<>>
               /\ state'[t].match_status = state[t].match_status
      ]_vars

\* a PARTIAL record back in the search node with cleared accumulators
C4_Witness ==
    \E t \in tasks : /\ pc[t] = "google_search"
                     /\ state[t].retry_count = 1
                     /\ state[t].match_status = "PARTIAL"
                     /\ state[t].search_results = <<>>

\* C5 (scenario B): when every candidate of every tier scores below the
\* threshold, the record ends NOT_FOUND with no best contact, after exactly 3
\* searches and with retry count 2.
C5_ScenarioB ==
    \A t \in tasks :
        (pc[t] = "END" /\ ~hist[t].everMet) =>
            /\ state[t].match_status = "NOT_FOUND"
            /\ state[t].best_contact = None
            /\ hist[t].searches = 3
            /\ state[t].retry_count = 2

\* candidates were scored, all at 40 or less against 70, in each of the 3 tiers
C5_Witness ==
    \E t \in tasks : /\ pc[t] = "END"
                     /\ ~hist[t].everMet
                     /\ hist[t].tiersScored = 3
                     /\ settings.confidence_threshold = 70
                     /\ state[t].confidence_score = 40

\* C6 (scenario C): a search call that failed on all 3 attempts leaves an
\* empty hit list and the error text on the record state; the tier goes on
\* through scrape, extract, verify and the retry decision as with no result,
\* and the run is not aborted.
C6_ScenarioC ==
    \A t \in tasks :
        hist[t].searchFailed =>
            /\ state[t].error = Exc
            /\ state[t].search_results = <<>>
            /\ hist[t].last = [kind |-> "search", attempts |-> 3, outcome |-> "raised"]
            /\ pc[t] \in {"scrape_pages", "llm_extract", "llm_verify", "prepare_retry", "END"}
            /\ state[t].scraped_pages = <<>>
            /\ state[t].extracted_contacts = <<>>
            /\ state[t].match_status \in {"FOUND", "PARTIAL", "NOT_FOUND"}
            /\ JustVerified(t) => state[t].match_status = "NOT_FOUND"

C6_Witness ==
    \E t \in tasks : /\ hist[t].searchFailed
                     /\ pc[t] = "END"
                     /\ state[t].error = Exc
                     /\ state[t].match_status = "NOT_FOUND"

\* C7: with pool size N at most N search or scrape calls hold a slot at any
\* instant, over all jobs; an attempt runs only with a slot, and a caller is
\* kept waiting only while all N slots are taken.
C7_PoolBound ==
    /\ Cardinality(Holders) <= settings.max_concurrent_browsers
    /\ \A t \in tasks :
          /\ call[t].phase \in {"running", "backoff"} => call[t].slot
          /\ call[t].phase = "waiting" =>
                /\ ~call[t].slot
                /\ Cardinality(Holders) = settings.max_concurrent_browsers

C7_Witness ==
    \E t, u \in tasks : /\ call[t].phase = "waiting"
                        /\ call[u].phase = "running"
                        /\ Cardinality(Holders) = settings.max_concurrent_browsers

\* C8: a call takes its slot once and keeps it through every attempt and
\* every backoff wait; the slot is not given back between attempts.
C8_SlotHeldAcrossRetries ==
    /\ \A t \in tasks :
          call[t].phase \in {"running", "backoff"} => call[t].slot /\ call[t].acq = 1
    /\ sem_value + Cardinality(Holders) = settings.max_concurrent_browsers

\* a second attempt under way while another job waits for the slot
C8_Witness ==
    \E t, u \in tasks : /\ call[t].phase = "running"
                        /\ call[t].attempt = 2
                        /\ call[u].phase = "waiting"

\* C9: a search call makes at most 3 attempts, a returning attempt ends the
\* call, and the failure of the third attempt reaches the caller of the pool
\* call (the node records it).
C9_SearchAttempts ==
    \A t \in tasks :
        /\ call[t].attempt <= 3
        /\ hist[t].last.kind = "search" =>
              /\ hist[t].last.attempts \in 1..3
              /\ hist[t].last.outcome \in {"returned", "raised"}
              /\ hist[t].last.outcome = "raised" =>
                    hist[t].last.attempts = 3 /\ state[t].error = Exc

C9_Witness ==
    \E t \in tasks : hist[t].last = [kind |-> "search", attempts |-> 2, outcome |-> "returned"]

\* C10: a scrape call yields a failed page (success=false) only after 3
\* attempts.
C10_ScrapeRetried ==
    \A t \in tasks :
        (hist[t].last.kind = "scrape" /\ hist[t].last.outcome = "failed_page") =>
            hist[t].last.attempts = 3

\* ---- the query builder ----

Built(t) == state[t].search_queries # <<>>

PresentFields(hcp) ==
    { f \in {hcp.first_name, hcp.middle_name, hcp.last_name,
             hcp.city, hcp.state_code} : f # "" }

Elems(q) == { q[k] : k \in 1..Len(q) }

\* C20: build_search_queries returns exactly three queries in tier order (the
\* directory sites, then the government and academic sites, then the general
\* query with the contact-information qualifier); every query carries the role
\* keywords; a missing identity field is left out and a present one is kept.
C20_ThreeQueries ==
    \A t \in tasks : Built(t) =>
        LET qs  == state[t].search_queries
            hcp == state[t].hcp_input
        IN /\ Len(qs) = 3
           /\ qs[1].sites = <<"doximity.com", "npiprofile.com">> /\ qs[1].suffix = <<>>
           /\ qs[2].sites = <<".gov", ".edu">> /\ qs[2].suffix = <<>>
           /\ qs[3].sites = <<>> /\ qs[3].suffix = <<ContactQualifier>>
           /\ \A k \in 1..3 :
                /\ RoleKeywords \in Elems(qs[k].base)
                /\ "" \notin Elems(qs[k].base)
                /\ Elems(qs[k].base) = PresentFields(hcp) \cup {RoleKeywords}

\* queries built for an identity without a last name and without a city
C20_Witness ==
    \E t \in tasks : /\ Built(t)
                     /\ state[t].hcp_input.last_name = ""
                     /\ state[t].hcp_input.city = ""
                     /\ state[t].hcp_input.first_name # ""

\* ---- the result parser ----

Min(a, b) == IF a <= b THEN a ELSE b

\* every candidate the filters accept, in encounter order, whatever the cap
AllAccepted(page) ==
    LET n     == Len(page.containers) + Len(page.loose) + 1
        first == CollectHits(page.containers, 1, <<>>, n)
    IN IF first # <<>> THEN first ELSE CollectHits(TitleLinks(page), 1, <<>>, n)

\* C11: the returned hit list is the first max_results elements of the stable
\* sort by rank of all the accepted candidates of the page (no accepted
\* candidate of lower rank is left out for one of higher rank).
C11_BestRankedKept ==
    parse.done =>
        LET sorted == SortByRank(AllAccepted(parse.page))
        IN parse.hits = SubSeq(sorted, 1, Min(parse.max_results, Len(sorted)))

\* C12: no returned hit is blocklisted or on the search engine's domain, no two
\* returned hits have the same URL, and the ranks never decrease along the list.
C12_HitsClean ==
    parse.done =>
        LET hits == parse.hits
        IN /\ \A k \in 1..Len(hits) :
                /\ hits[k].url.has \cap SOCIAL_MEDIA_BLOCKLIST = {}
                /\ hits[k].url.has \cap {"google.com", "google.co"} = {}
                /\ hits[k].url \in UrlPool
           /\ \A j, k \in 1..Len(hits) : j # k => hits[j].url.name # hits[k].url.name
           /\ \A j, k \in 1..Len(hits) : j < k => hits[j].rank <= hits[k].rank
           /\ Len(hits) <= parse.max_results

\* a parsed page that held a blocked or search-engine link and a better-ranked
\* link behind a worse one; the two accepted links are returned, best first
C12_Witness ==
    /\ parse.done
    /\ Len(parse.hits) = 2
    /\ parse.hits[1].rank < parse.hits[2].rank
    /\ \E j, k \in 1..Len(parse.page.containers) :
          /\ j < k
          /\ ~Skipped(parse.page.containers[j], <<>>)
          /\ ~Skipped(parse.page.containers[k], <<>>)
          /\ rank_url(parse.page.containers[j]) > rank_url(parse.page.containers[k])
    /\ \E k \in 1..Len(parse.page.containers) :
          is_blocked_url(parse.page.containers[k]) \/ IsSearchEngine(parse.page.containers[k])

\* ---- the job task ----

Current(t) == job[t].records[job[t].idx]

TaskOver(t) == job[t].pc \in {"done", "crashed"}

NoFault == dbfaults = MaxFaults

HasContact(row) == row.phone \/ row.email \/ row.full_address

CountOf(outcomes, n, statuses) == Cardinality({ k \in 1..n : outcomes[k] \in statuses })

\* the step in which the except clause of the loop handles a raising graph run
RaiseHandled(t) == job[t].pc = "running" /\ pc[t] = "raised" /\ job'[t] # job[t]

\* C13: when the graph run of a record raises, every row of that record's
\* project id is stored ERROR with the exception message as reasoning, the other
\* rows are left alone and the job goes on to the progress update; a job that
\* met no persistence failure ends COMPLETED with processed_records equal to
\* the batch size.
C13_ErrorIsolated ==
    /\ [][ \A t \in tasks : RaiseHandled(t) /\ dbfaults' = dbfaults =>
              /\ job'[t].pc = "progress"
              /\ \A k \in DOMAIN sess[t].records :
                    IF sess[t].records[k].project_id = Current(t).project_id
                    THEN /\ sess'[t].records[k].match_status = "ERROR"
                         /\ sess'[t].records[k].verification_reasoning = Exc
                    ELSE sess'[t].records[k] = sess[t].records[k] ]_vars
    /\ [](\A t \in tasks : TaskOver(t) /\ NoFault =>
              /\ db[t].job.status = "COMPLETED"
              /\ db[t].job.processed_records = Len(job[t].records))

\* a completed job whose first record raised and whose second was found
C13_Witness ==
    \E t \in tasks :
        /\ TaskOver(t) /\ NoFault
        /\ job[t].outcomes = <<"ERROR", "FOUND">>
        /\ db[t].job.status = "COMPLETED"
        /\ db[t].records[1].match_status = "ERROR"
        /\ db[t].records[1].verification_reasoning = Exc
        /\ db[t].records[2].match_status = "FOUND"

\* C14: the stored counters always add up: processed_records = found_count +
\* not_found_count + error_count, found_count counts the handled records that
\* ended FOUND or PARTIAL, processed_records never exceeds total_records, and
\* at the loop head it is the number of records handled so far.
C14_CountersAddUp ==
    \A t \in tasks :
        LET j == db[t].job
            o == job[t].outcomes
            n == j.processed_records
        IN /\ n = j.found_count + j.not_found_count + j.error_count
           /\ n <= j.total_records
           /\ n <= Len(o)
           /\ j.found_count = CountOf(o, n, {"FOUND", "PARTIAL"})
           /\ j.not_found_count = CountOf(o, n, {"NOT_FOUND"})
           /\ j.error_count = CountOf(o, n, {"ERROR"})
           /\ job[t].pc = "loop" => n = job[t].idx /\ n = Len(o)

\* two records handled, one PARTIAL and one ERROR
C14_Witness ==
    \E t \in tasks :
        /\ db[t].job.processed_records = 2
        /\ db[t].job.found_count = 1
        /\ db[t].job.error_count = 1
        /\ "PARTIAL" \in { job[t].outcomes[k] : k \in 1..2 }

Moves(t, allowed) ==
    db'[t].job.status # db[t].job.status =>
        <<db[t].job.status, db'[t].job.status>> \in allowed

Settled(t) == db[t].job.status \in {"COMPLETED", "FAILED"}

\* once COMPLETED or FAILED: no counter changes and no record is processed
Frozen(t) ==
    Settled(t) => /\ db'[t] = db[t]
                  /\ job'[t].idx = job[t].idx
                  /\ pc'[t] = pc[t]

\* C15 as stated: the stored status only moves PENDING -> PROCESSING ->
\* COMPLETED or PROCESSING -> FAILED; COMPLETED only with processed_records =
\* total_records; nothing changes after COMPLETED or FAILED.
C15_AsStated ==
    /\ [][ \A t \in tasks :
              /\ Moves(t, { <<"PENDING", "PROCESSING">>, <<"PROCESSING", "COMPLETED">>,
                            <<"PROCESSING", "FAILED">> })
              /\ Frozen(t) ]_vars
    /\ [](\A t \in tasks : db[t].job.status = "COMPLETED" =>
              db[t].job.processed_records = db[t].job.total_records)

\* C15 amended: as stated, but a job still PENDING can also move to FAILED
\* (the first update or its commit raised).
C15_StatusMoves ==
    /\ [][ \A t \in tasks :
              /\ Moves(t, { <<"PENDING", "PROCESSING">>, <<"PROCESSING", "COMPLETED">>,
                            <<"PROCESSING", "FAILED">>, <<"PENDING", "FAILED">> })
              /\ Frozen(t) ]_vars
    /\ [](\A t \in tasks : db[t].job.status = "COMPLETED" =>
              db[t].job.processed_records = db[t].job.total_records)

\* a job marked FAILED before its loop began: it never was PROCESSING
C15_Witness ==
    \E t \in tasks : /\ db[t].job.status = "FAILED"
                     /\ job[t].idx = 0
                     /\ job[t].pc = "done"

\* C16: a job that entered PROCESSING ends COMPLETED or FAILED: once its task
\* is over (returned, or ended by an exception) the stored status is no longer
\* PROCESSING.
C16_JobSettles ==
    \A t \in tasks : TaskOver(t) => db[t].job.status # "PROCESSING"

\* C17: the records of a job run one at a time in input order: a graph run is
\* for the record the loop is at; it begins only when the results and counters
\* of all earlier records are committed; processed_records goes up by one.
C17_OneAtATime ==
    /\ [](\A t \in tasks :
            /\ job[t].pc \in {"delay", "running"} =>
                 /\ db[t].job.processed_records = job[t].idx - 1
                 /\ sess[t] = db[t]
                 /\ \A k \in 1..(job[t].idx - 1) :
                       db[t].records[k].match_status # "PROCESSING"
            /\ pc[t] \notin {"idle", "raised"} =>
                 /\ job[t].pc = "running"
                 /\ state[t].hcp_input = Current(t))
    /\ [][ \A t \in tasks :
              /\ db'[t].job.processed_records # db[t].job.processed_records =>
                    db'[t].job.processed_records = db[t].job.processed_records + 1
              /\ job'[t].idx \in {job[t].idx, job[t].idx + 1} ]_vars

\* the second record's graph run in flight, the first record committed
C17_Witness ==
    \E t \in tasks : /\ job[t].pc = "running"
                     /\ job[t].idx = 2
                     /\ pc[t] = "scrape_pages"
                     /\ db[t].job.processed_records = 1

\* C18: a stored record with status ERROR has no stored phone, email or address.
C18_ErrorHasNoContact ==
    \A t \in tasks : \A k \in DOMAIN db[t].records :
        db[t].records[k].match_status = "ERROR" => ~HasContact(db[t].records[k])

\* C19: when a job is COMPLETED every record row has a stored status among
\* FOUND, PARTIAL, NOT_FOUND and ERROR; none is left PROCESSING.
C19_NoneLeftProcessing ==
    \A t \in tasks : db[t].job.status = "COMPLETED" =>
        \A k \in DOMAIN db[t].records :
            db[t].records[k].match_status \in {"FOUND", "PARTIAL", "NOT_FOUND", "ERROR"}

\* a completed job with a NOT_FOUND row and an ERROR row
C19_Witness ==
    \E t \in tasks :
        /\ db[t].job.status = "COMPLETED"
        /\ { db[t].records[k].match_status : k \in DOMAIN db[t].records }
              = {"NOT_FOUND", "ERROR"}



\* ---- the language-model pass ----

Candidates == verify.s.extracted_contacts

AllEmpty(c) == ~c.phone /\ ~c.email /\ ~c.full_address

\* C21: a contact whose phone, email and full address are all empty is never
\* among the candidates handed to verification, and verify_identity is never
\* called with one.
C21_NoEmptyCandidate ==
    /\ \A k \in DOMAIN Candidates : ~AllEmpty(Candidates[k])
    /\ \A k \in DOMAIN verify.asked : ~AllEmpty(verify.asked[k])

\* a pass is over in which some page gave an empty contact and another page's
\* contact was verified
C21_Witness ==
    /\ verify.stage = "END"
    /\ \E k \in DOMAIN verify.pages : extract_contact(verify.extractions[k]) = NoFields
    /\ verify.asked # <<>>
    /\ Len(verify.asked) < Len(verify.pages)

PassOver == verify.stage = "END"

\* the score verify_identity gave to each candidate of the pass
ScoreOf == LET vs == Verdicts(verify, Candidates)
           IN [k \in DOMAIN Candidates |-> vs[k].score]

\* C22: the candidate llm_verify reports as best has the highest score of the
\* tier's candidates, and among candidates with that score it is the first in
\* candidate order; the reported confidence is that score.
C22_BestIsFirstHighest ==
    (PassOver /\ verify.s.best_contact # None) =>
        \E k \in DOMAIN Candidates :
            /\ verify.s.best_contact = Candidates[k]
            /\ verify.s.confidence_score = ScoreOf[k]
            /\ \A j \in DOMAIN Candidates : ScoreOf[j] <= ScoreOf[k]
            /\ \A j \in 1..(k - 1) : ScoreOf[j] < ScoreOf[k]

\* two candidates share the highest score and the first of them is reported
C22_Witness ==
    /\ PassOver
    /\ Len(Candidates) >= 2
    /\ ScoreOf[1] = ScoreOf[2]
    /\ verify.s.best_contact = Candidates[1]
    /\ Candidates[1] # Candidates[2]

\* the positions, in candidate order, of the candidates whose score reaches the
\* threshold
Meeting == SelectSeq([k \in DOMAIN Candidates |-> k],
                     LAMBDA k : ScoreOf[k] >= verify.threshold)

\* C23: source_urls after llm_verify is the list, in candidate order, of the
\* source URLs of all the tier's candidates that scored at least the
\* threshold, whichever candidate is the best.
C23_SourcesMeetThreshold ==
    PassOver =>
        verify.s.source_urls = [i \in DOMAIN Meeting |-> Candidates[Meeting[i]].source_url]

\* two candidates reach the threshold, the second is the best, and both URLs
\* are listed in candidate order
C23_Witness ==
    /\ PassOver
    /\ Len(Candidates) = 2
    /\ verify.s.best_contact = Candidates[2]
    /\ verify.s.source_urls = <<Candidates[1].source_url, Candidates[2].source_url>>
    /\ Candidates[1].source_url # Candidates[2].source_url

\* the pages whose extraction call returned a JSON object with a useful field
Answered == SelectSeq([k \in DOMAIN verify.pages |-> k],
                      LAMBDA k : /\ verify.extractions[k].kind = "json"
                                 /\ \E i \in 1..3 : verify.extractions[k].fields[i])

\* the confidences the model gave, in calls that returned one, to the candidates
Given == { verify.verifications[Candidates[k].source_url].fields.confidence :
             k \in { j \in DOMAIN Candidates :
                       LET a == verify.verifications[Candidates[j].source_url]
                       IN a.kind = "json" /\ a.fields.has } }

Highest(S) == CHOOSE x \in S : \A y \in S : y <= x

\* C24: a failure of a language-model call never aborts the record. A failed or
\* unparseable extraction costs its own page only: the candidates are the
\* contacts of the other pages, in page order. A failed verification counts as
\* confidence 0 for its own candidate only: every candidate is still verified,
\* the confidence is the highest the model gave to any candidate (0 at least),
\* and the pass ends with status FOUND, PARTIAL or NOT_FOUND and no error.
C24_LlmFailuresIsolated ==
    /\ verify.stage \in {"llm_verify", "END"} =>
          /\ Len(Candidates) = Len(Answered)
          /\ \A i \in DOMAIN Answered :
                LET f == verify.extractions[Answered[i]].fields
                IN Candidates[i] = Contact(f[1], f[2], f[3], verify.pages[Answered[i]])
    /\ PassOver =>
          /\ verify.asked = Candidates
          /\ verify.s.confidence_score = Highest(Given \cup {0})
          /\ verify.s.match_status \in {"FOUND", "PARTIAL", "NOT_FOUND"}
          /\ verify.s.error = InitialState(JohnSmith).error

\* the verification call of the first candidate raised, and the second
\* candidate was still verified and found
C24_Witness ==
    /\ PassOver
    /\ Len(Candidates) = 2
    /\ verify.verifications[Candidates[1].source_url].kind = "raise"
    /\ verify.s.best_contact = Candidates[2]
    /\ verify.s.match_status = "FOUND"

\* C30: whatever the verification model returns, the confidence recorded for a
\* record after llm_verify lies within 0..100.
C30_ConfidenceInRange ==
    PassOver => verify.s.confidence_score \in 0..100

\* ---- the terminal result of the pipeline ----

\* C25: the reasoning text of a finished record is never empty: it is the
\* reasoning given for a verified candidate, or the note of a failed
\* verification call.
C25_ReasoningGiven ==
    \A t \in tasks :
        pc[t] = "END" => state[t].verification_reasoning # ""

\* the step of task t in which llm_verify runs
Verifies(t) == pc[t] = "llm_verify" /\ pc'[t] # "llm_verify"

\* C27: what llm_verify leaves in the state comes from the candidates of the
\* current tier only, and the terminal result is what the last llm_verify left:
\* the best contact is none or one of these candidates, every source URL is the
\* URL of one of them, and with no candidate the result is NOT_FOUND with
\* confidence 0, no reasoning and no source URL, whatever an earlier tier found.
C27_LastVerifyOnly ==
    [][\A t \in tasks :
          /\ Verifies(t) =>
                LET cs == state[t].extracted_contacts
                    r  == state'[t]
                IN /\ r.best_contact = None \/ \E k \in DOMAIN cs : cs[k] = r.best_contact
                   /\ \A i \in DOMAIN r.source_urls :
                         \E k \in DOMAIN cs : cs[k].source_url = r.source_urls[i]
                   /\ cs = <<>> => /\ r.match_status = "NOT_FOUND"
                                   /\ r.confidence_score = 0
                                   /\ r.verification_reasoning = ""
                                   /\ r.source_urls = <<>>
          /\ pc'[t] = "END" => Verifies(t) \/ (pc[t] = "END" /\ state'[t] = state[t])
      ]_vars

\* a tier met the threshold of 70, and the record ended with nothing
C27_Witness ==
    \E t \in tasks :
        /\ pc[t] = "END"
        /\ settings.confidence_threshold = 70
        /\ hist[t].everMet
        /\ state[t].match_status = "NOT_FOUND"
        /\ state[t].best_contact = None
        /\ state[t].confidence_score = 0

\* task t stands at the entry of the search node, the visit not yet counted
AtSearchEntry(t) == pc[t] = "google_search" /\ call[t].phase = "idle"

\* C28: the queries are used left to right, none skipped and none repeated:
\* the k-th visit of the search node works with query index k-1, and once the
\* queries are built retry_count equals current_query_idx, which stays below
\* the number of queries.
C28_QueriesInOrder ==
    \A t \in tasks :
        pc[t] # "build_queries" =>
            /\ state[t].retry_count = state[t].current_query_idx
            /\ state[t].current_query_idx < Len(state[t].search_queries)
            /\ hist[t].searches = IF AtSearchEntry(t) THEN state[t].current_query_idx
                                  ELSE state[t].current_query_idx + 1

\* the third visit of the search node is running the third query
C28_Witness ==
    \E t \in tasks :
        /\ pc[t] = "google_search"
        /\ call[t].phase = "running"
        /\ hist[t].searches = 3
        /\ state[t].current_query_idx = 2
        /\ state[t].search_queries[3] = build_search_queries(state[t].hcp_input)[3]

\* C29: a record ends with a status other than FOUND only after all three
\* query tiers were searched; a record that ends before the last tier ends
\* FOUND; and a tier followed by another tier did not produce FOUND.
C29_EarlyEndIsFound ==
    /\ [](\A t \in tasks :
            pc[t] = "END" =>
               /\ state[t].match_status # "FOUND" =>
                     /\ state[t].current_query_idx = TierCount - 1
                     /\ hist[t].searches = TierCount
               /\ state[t].current_query_idx < TierCount - 1 =>
                     state[t].match_status = "FOUND")
    /\ [][\A t \in tasks :
            (pc[t] # "prepare_retry" /\ pc'[t] = "prepare_retry") =>
                state'[t].match_status # "FOUND"]_vars

\* a record ends FOUND on its second tier
C29_Witness ==
    \E t \in tasks :
        /\ pc[t] = "END"
        /\ state[t].match_status = "FOUND"
        /\ state[t].current_query_idx = 1
        /\ hist[t].searches = 2

\* ---- the ingestion of an upload ----

SheetDone == sheet.stage \in {"parsed", "rejected"}

\* the column of the sheet that holds the project identifiers, 0 for none
IdColumn == IF sheet.rows = <<>> THEN 0 ELSE col_map(sheet.rows[1], "PROJECT_ID")

\* the project identifier a data row holds: the text of its cell, stripped
Identifier(row) == IF row[IdColumn].kind = "none" THEN "" ELSE Strip(row[IdColumn].text)

\* the data rows that have a non-empty project identifier, in row order
Identified == SelectSeq(Tail(sheet.rows), LAMBDA row : Identifier(row) # "")

\* C26: parse_excel rejects the upload, with no record, when the sheet has no
\* PROJECT_ID column or no data row; otherwise it yields one record for every
\* data row with a non-empty project identifier, in row order, and none for
\* the other rows.
C26_OneRecordPerIdentifiedRow ==
    SheetDone =>
        IF Len(sheet.rows) < 2 \/ IdColumn = 0
        THEN sheet.stage = "rejected" /\ sheet.records = <<>>
        ELSE /\ sheet.stage = "parsed"
             /\ Len(sheet.records) = Len(Identified)
             /\ \A i \in DOMAIN Identified :
                   sheet.records[i].project_id = Identifier(Identified[i])

\* ---- the scrape stage ----

PageUrls(pages) == [k \in DOMAIN pages |-> pages[k].url]

\* the step of task t in which scrape_pages returns
ScrapeReturns(t) == pc[t] = "scrape_pages" /\ pc'[t] = "llm_extract"

\* C31: in a tier scrape_pages fetches the first 5 hits of the search result,
\* in order, and no other page; a page that failed does not stop the fetching
\* of the hits after it; the pages handed to extraction are the fetched pages
\* with success and a non-empty text, in order. A record makes at most 3
\* search calls and at most 15 scrape calls.
C31_TopFiveScraped ==
    /\ [](\A t \in tasks : /\ Len(loc[t].fetched) <= ScrapeTop
                           /\ hist[t].searches <= TierCount
                           /\ hist[t].scrapes <= TierCount * ScrapeTop)
    /\ [][\A t \in tasks :
            ScrapeReturns(t) =>
               LET hits == state[t].search_results
               IN /\ PageUrls(loc[t].fetched) = SubSeq(hits, 1, Min(ScrapeTop, Len(hits)))
                  /\ state'[t].scraped_pages =
                        PageUrls(SelectSeq(loc[t].fetched, LAMBDA p : p.success /\ p.text))
      ]_vars

\* the third tier has fetched 5 of its 7 or more hits, the record's 15th scrape
\* call; the first page of the tier failed and a later one was kept
C31_Witness ==
    \E t \in tasks :
        /\ pc[t] = "scrape_pages"
        /\ hist[t].searches = TierCount
        /\ hist[t].scrapes = TierCount * ScrapeTop
        /\ Len(state[t].search_results) > ScrapeTop
        /\ Len(loc[t].fetched) = ScrapeTop
        /\ ~loc[t].fetched[1].success
        /\ loc[t].pages # <<>>

\* ---- the URL rules ----

\* the ranks of the rules of rank_url that match the URL
MatchingRanks(url) ==
    { r \in 0..4 :
        \/ r = 0 /\ (url.has \cap {"doximity.com", "npiprofile.com"} # {})
        \/ r = 1 /\ ".gov" \in url.has
        \/ r = 2 /\ ".edu" \in url.has
        \/ r = 3 /\ ".org" \in url.has
        \/ r = 4 /\ (url.has \cap {"hospital", "health", "medical", "clinic"} # {}) }

Smallest(S) == CHOOSE x \in S : \A y \in S : x <= y

\* C32: rank_url returns a value in 0..5: the rank of the first rule that
\* matches in the order professional directory (0), government (1), academic
\* (2), organizational (3), health keyword (4), and 5 when none matches; a URL
\* matching several rules gets the smallest of their ranks.
C32_SmallestMatchingRank ==
    urlcall.ranked =>
        /\ urlcall.rank \in 0..5
        /\ urlcall.rank = Smallest(MatchingRanks(urlcall.url) \cup {5})

\* a URL of an .org host with a health keyword, which two rules match, got 3
C32_Witness ==
    /\ urlcall.ranked
    /\ {3, 4} \subseteq MatchingRanks(urlcall.url)
    /\ urlcall.rank = 3

\* the blocklisted domains, as labels
BlockedDomains ==
    { <<"facebook", "com">>, <<"twitter", "com">>, <<"x", "com">>, <<"instagram", "com">>,
      <<"linkedin", "com">>, <<"tiktok", "com">>, <<"reddit", "com">>,
      <<"pinterest", "com">>, <<"snapchat", "com">>, <<"threads", "net">>,
      <<"tumblr", "com">>, <<"youtube", "com">> }

\* host is the domain or one of its subdomains
Within(host, domain) ==
    /\ Len(domain) <= Len(host)
    /\ SubSeq(host, Len(host) - Len(domain) + 1, Len(host)) = domain

\* C33: is_blocked_url returns True for every URL whose host is a blocklisted
\* social-media domain or a subdomain of one, and False for every URL whose
\* host is not, whatever else the URL contains.
C33_BlockedByHost ==
    urlcall.asked =>
        (urlcall.blocked <=> \E d \in BlockedDomains : Within(urlcall.host, d))

\* ---- the parsing of a completion ----

\* the content is a markdown-fenced block whose outermost brace span exists
Fenced(c) == c.given = "text" /\ c.fence /\ c.open >= 0 /\ c.close >= c.open

\* C34: _parse_json_response never raises: for valid JSON it returns what was
\* parsed, for a fenced block around valid JSON the object inside, and for
\* None, "" and every other content the empty mapping, also when the content
\* is fenced and its outermost brace span is no valid JSON.
C34_NeverRaises ==
    jsoncall.done =>
        LET c == jsoncall.content
        IN /\ ~jsoncall.result.raised
           /\ jsoncall.result.value =
                 IF c.given # "text" THEN "{}"
                 ELSE IF c.whole # "invalid" THEN c.whole
                 ELSE IF Fenced(c) /\ c.span = "object" THEN "object"
                 ELSE "{}"

\* ---- the stored rows of a job ----

\* the record rows of task t's job whose committed status is no longer PROCESSING
Handled(t) == { k \in DOMAIN db[t].records : db[t].records[k].match_status # "PROCESSING" }

\* C35: a record's result and the counters that account for it become visible
\* together: in every committed state of a job, processed_records is the number
\* of the job's records whose stored status is no longer PROCESSING.
C35_CountersMatchRows ==
    \A t \in tasks : db[t].job.processed_records = Cardinality(Handled(t))

\* the step in which the outcome of the current record is written to its row
Stores(t) == /\ job[t].pc \in {"running", "record_error"}
             /\ job'[t].pc = "progress"

\* C36: storing the outcome of record i of a job changes the stored result of
\* record i only, for every record list the ingestion can yield.
C36_OnlyOwnRow ==
    [][\A t \in tasks :
          Stores(t) =>
             \A k \in DOMAIN sess[t].records :
                k # job[t].idx => sess'[t].records[k] = sess[t].records[k]]_vars

\* no search or scrape call is in flight: none holds a slot, none waits for one
NoneInFlight == \A t \in tasks : call[t].kind = "none"

\* the call of t has just left its `async with` block
Left(t) == call[t].slot /\ ~call'[t].slot

\* C37: every acquired slot is released on every exit path of a call (a
\* result, a failure result, an error raised after the last attempt): leaving
\* the block frees the slot or hands it to the first waiter, with no call in
\* flight all N slots are free again, and under fair scheduling every caller
\* that waits for a slot obtains one: waiting ends only by getting the slot,
\* and from some point on nobody waits.
C37_SlotsReleased ==
    /\ [](NoneInFlight => /\ sem_value = settings.max_concurrent_browsers
                          /\ sem_waiters = <<>>)
    /\ [][\A t \in tasks :
             /\ Left(t) => \/ sem_value' = sem_value + 1
                           \/ \E u \in tasks \ {t} : ~call[u].slot /\ call'[u].slot
             /\ call[t].phase = "waiting" /\ call'[t].phase # "waiting" => call'[t].slot]_vars
    /\ <>[](\A t \in tasks : call[t].phase # "waiting")

\* a caller has got the slot that a search call gave back when it raised
C37_Witness ==
    \E t, u \in tasks : /\ hist[t].last.outcome = "raised"
                        /\ call[t].kind = "none"
                        /\ call[u].slot
                        /\ call[u].acq = 1
                        /\ hist[u].last.kind = "none"
                        /\ sem_value = 0

\* the job of t sleeps, between tiers or between records, or one of its LLM
\* nodes runs
AwayFromPool(t) ==
    \/ call[t].phase = "delay"
    \/ job[t].pc = "delay"
    \/ pc[t] \in {"llm_extract", "llm_verify"}

\* C38: a slot is held only while a search or scrape call is being attempted
\* (its attempts and the waits between them): a job holds no slot during the
\* delay between tiers, the delay between records, or an LLM extraction or
\* verification, and with one job the whole pool is free then.
C38_SlotOnlyDuringCalls ==
    \A t \in tasks :
        /\ call[t].slot =>
              /\ job[t].pc = "running"
              /\ call[t].phase \in {"running", "backoff"}
              /\ \/ pc[t] = "google_search" /\ call[t].kind = "search"
                 \/ pc[t] = "scrape_pages" /\ call[t].kind = "scrape"
        /\ AwayFromPool(t) =>
              /\ ~call[t].slot
              /\ Cardinality(tasks) = 1 => sem_value = settings.max_concurrent_browsers

\* the second record's search of a later tier sleeps first, after the calls of
\* the first record and of the earlier tier have held the slot
C38_Witness ==
    \E t \in tasks : /\ call[t].phase = "delay"
                     /\ job[t].idx = 2
                     /\ state[t].retry_count > 0
                     /\ hist[t].last.kind = "scrape"

\* the jobs whose record is still in the graph
Active == {t \in tasks : pc[t] # "END"}

\* the jobs with a search or scrape call in flight: holding a slot or queued
InFlight == {t \in tasks : call[t].phase \in {"waiting", "running", "backoff"}}

Queued(t) == Cardinality({k \in 1..Len(sem_waiters) : sem_waiters[k] = t})

\* C39: a job has at most one search or scrape call in flight at a time, one
\* that either holds a slot or is queued once for one, so with J active jobs
\* the slots in use never exceed min(N, J).
C39_OneCallPerJob ==
    /\ \A t \in tasks :
          /\ Queued(t) = IF call[t].phase = "waiting" THEN 1 ELSE 0
          /\ ~(call[t].slot /\ call[t].phase = "waiting")
          /\ call[t].slot => call[t].acq = 1
    /\ InFlight \subseteq Active
    /\ Holders \subseteq InFlight
    /\ Cardinality(Holders) <= Min(settings.max_concurrent_browsers, Cardinality(Active))
    /\ settings.max_concurrent_browsers - sem_value
          <= Min(settings.max_concurrent_browsers, Cardinality(Active))

\* a pool of two slots of which one is in use, by the only job still active
C39_Witness ==
    /\ settings.max_concurrent_browsers = 2
    /\ Cardinality(Active) = 1
    /\ Cardinality(Holders) = 1
    /\ sem_value = 1

\* C40: for every threshold (0..100) and every scoring of the candidates, the
\* source_urls of a record's result is non-empty exactly when its status is
\* FOUND or PARTIAL; a NOT_FOUND result carries no source URL.
C40_SourcesIffMatched ==
    PassOver =>
        (verify.s.source_urls # <<>> <=> verify.s.match_status \in {"FOUND", "PARTIAL"})

=============================================================================
